---- MODULE Spec2Model ----
(***************************************************************************)
(* Connection caches and the JWT authentication gate of cloneflix-frontend *)
(*                                                                         *)
(*  - the route-level {conn, promise} cache that /api/movies and           *)
(*    /api/movies/recommendations each define (connectToDatabase),         *)
(*  - the lib/db cache (cachedClient, cachedDb) and the connectMongo cache *)
(*    (cachedConnection), which have no pending state,                     *)
(*  - isAuthenticated of lib/auth.ts,                                      *)
(*  - the handler GET /api/movies/recommendations, which calls both,       *)
(*  - the module that exports clientPromise.                               *)
(*                                                                         *)
(* An async function runs without interruption from one await to the next; *)
(* each such segment is one action.  The source fixes neither the order in *)
(* which the runtime resumes the continuations that are ready nor when the *)
(* framework dispatches a handler, so every order is admitted.             *)
(* isAuthenticated has no await: it is followed statement by statement,    *)
(* and no other action is taken while a request is inside it.              *)
(***************************************************************************)
EXTENDS Integers, Sequences, FiniteSets

\* ------------------------------------------------------------------ bounds
NCallers == 2            \* request handlers that may be inside an acquisition call
MaxConnects == 3         \* cap on the connect calls made in one run

MaxSecretLen == 2        \* longest JWT_SECRET string that is tried
MaxTime == 1             \* the clock runs from 0 to MaxTime
MaxRequests == 2         \* cap on the requests that reach isAuthenticated in one run
MaxSearches == 2         \* cap on the searchMovies calls made in one run
MaxInFlight == 2         \* cap on the watchlist requests one component has in flight
CsvRows == 2             \* number of rows tried for movies.csv

Callers == 1..NCallers
Attempts == 1..MaxConnects

NULL == 0                \* null / undefined

\* the modules that define the route-level cache
RouteModules == {"movies", "recommendations"}
\* the acquisition functions: the two route-level ones, lib/db, connectMongo
Functions == RouteModules \cup {"db", "connectMongo"}

VARIABLES
  MONGODB_URI,           \* process.env.MONGODB_URI: TRUE when defined
  cached,                \* per route module: [conn, promise]; ids of connect calls
  cachedClient,          \* lib/db: the cached MongoClient or NULL
  cachedDb,              \* lib/db: the cached Db or NULL
  cachedConnection,      \* connectMongo: the cached connection or NULL
  connectState,          \* state of the promise of each connect call
  connectBy,             \* the function that made each connect call
  pc,                    \* position of each caller
  fn,                    \* the acquisition function a caller is in
  awaited,               \* the promise a caller is suspended on
  result                 \* what the last call of a caller returned or threw

VARIABLES
  JWT_SECRET,            \* process.env.JWT_SECRET: [defined, value]
  JWT_SECRET_BUFFER,     \* auth.ts line 14: [isNull, bytes]
  now,                   \* the clock read by jwt.verify
  authPc,                \* position of the request inside isAuthenticated
  jwtToken,              \* auth.ts line 37: the value of the jwt cookie
  caught,                \* the error jwt.verify threw, "none" if it returned
  authOutcome,           \* how the last call ended: "true", "false", "throw"
  verifyCalls,           \* number of jwt.verify calls
  requests,              \* number of calls of isAuthenticated
  log                    \* the console message of the running or last call

VARIABLES
  handler,               \* recommendations GET: position of each request handler
  request,               \* recommendations GET: the jwt cookie of each request
  authenticated,         \* recommendations GET, line 79: "none", "true", "false"
  response               \* recommendations GET: the response returned

VARIABLES
  NODE_ENV,              \* process.env.NODE_ENV
  clientModule,          \* the clientPromise module: "unloaded", "loaded", "failed"
  clientPromise,         \* the module's clientPromise: id of a connect call or NULL
  globalMongoClientPromise  \* global._mongoClientPromise: the same

VARIABLES
  req,                   \* the request a handler was dispatched for: [url, method]
  step,                  \* position of each of the other API handlers
  res,                   \* the response such a handler returned
  movies,                \* the movies collection: what has been inserted
  idIndex                \* Movie.ts line 26: the unique index on id exists

VARIABLES
  homePage,              \* which version of the home page runs: "remote" or "local"
  searchQuery,           \* home page: the text of the search box
  allMovies,             \* home page: the movies that were loaded
  timers,                \* the pending debounce timers, by the query they captured
  searches,              \* the searchMovies calls made so far: [query, state]
  searchResults,         \* home page: the results shown
  errorSearch,           \* home page: the search error shown, "none" for null
  loadingSearch          \* home page: the search spinner

VARIABLES
  movie,                 \* per component: the movie prop / state, NoMovie for null
  isInWatchlist,         \* per component: useState(false)
  loadingWatchlist,      \* per component: useState(true)
  checking,              \* MovieCard: the checkStatus call of the effect
  toggling,              \* per component: the add / remove requests in flight
  toast                  \* the last message given to react-hot-toast

VARIABLES
  effect,                \* details page: position of the effect of lines 46-109
  loading,               \* AuthForm and details page: their loading state
  pageError,             \* details page: the error shown, "none" for null
  loadingRating,         \* details page: useState(true)
  submittingRating,      \* details page: useState(false)
  rating,                \* details page: position of handleRatingSubmit
  userRating             \* details page: the rating shown as the user's

VARIABLES
  mode,                  \* AuthForm: "login" or "register"
  submit,                \* AuthForm: position of onSubmit
  loadingLogout,         \* Navbar: useState(false)
  logout,                \* Navbar: position of handleLogout
  userProfile,           \* profile page: the profile loaded, NoProfile for null
  loadingProfile,        \* profile page: useState(true)
  errorProfile,          \* profile page: the error shown, "none" for null
  isSubmitting,          \* profile page: useState(false)
  data,                  \* profile page: the values the form was submitted with
  update,                \* profile page: position of getProfile, then of onUpdateProfile
  payload,               \* onUpdateProfile line 95: the fields to send
  sensitiveDataChanged,  \* onUpdateProfile line 98
  router                 \* per component: the last path given to router.push

authVars == <<JWT_SECRET, JWT_SECRET_BUFFER, now, authPc, jwtToken, caught,
              authOutcome, verifyCalls, requests, log>>
getVars == <<handler, request, authenticated, response>>
clientVars == <<NODE_ENV, clientModule, clientPromise, globalMongoClientPromise>>
apiVars == <<req, step, res, movies, idIndex>>
searchVars == <<homePage, searchQuery, allMovies, timers, searches, searchResults,
                errorSearch, loadingSearch>>
cardVars == <<movie, isInWatchlist, loadingWatchlist, checking, toggling, toast>>
detailVars == <<effect, loading, pageError, loadingRating, submittingRating, rating, userRating>>
formVars == <<mode, submit, loadingLogout, logout, userProfile, loadingProfile, errorProfile,
              isSubmitting, data, update, payload, sensitiveDataChanged, router>>
uiVars == <<searchVars, cardVars, detailVars, formVars>>
nonCacheVars == <<authVars, getVars, clientVars, apiVars, uiVars>>

cacheVars == <<cached, cachedClient, cachedDb, cachedConnection>>
callVars == <<connectState, connectBy, pc, fn, awaited, result>>

NoResult == [kind |-> "none", id |-> NULL]
Handle(k) == [kind |-> "handle", id |-> k]
ConnectionError(k) == [kind |-> "error", id |-> k]
ConfigurationError == [kind |-> "error", id |-> NULL]

\* the connect calls made so far by function f, and their number
ConnectsOf(f) == {k \in Attempts : connectBy[k] = f}
ConnectCalls(f) == Cardinality(ConnectsOf(f))
\* the id of the next connect call
NextAttempt == Cardinality({k \in Attempts : connectBy[k] # "none"}) + 1

\* a caller can make a call when it is not inside one
CanCall(i) == pc[i] \in {"idle", "returned", "thrown"}

\* caller i leaves the acquisition function with r; its frame is gone
Leave(i, r) ==
  /\ pc' = [pc EXCEPT ![i] = IF r.kind = "handle" THEN "returned" ELSE "thrown"]
  /\ fn' = [fn EXCEPT ![i] = "none"]
  /\ awaited' = [awaited EXCEPT ![i] = NULL]
  /\ result' = [result EXCEPT ![i] = r]

\* caller i, in function f, calls connect and suspends on its promise
StartConnect(i, f) ==
  /\ NextAttempt <= MaxConnects
  /\ connectState' = [connectState EXCEPT ![NextAttempt] = "pending"]
  /\ connectBy' = [connectBy EXCEPT ![NextAttempt] = f]
  /\ pc' = [pc EXCEPT ![i] = "awaiting"]
  /\ fn' = [fn EXCEPT ![i] = f]
  /\ awaited' = [awaited EXCEPT ![i] = NextAttempt]
  /\ result' = [result EXCEPT ![i] = NoResult]

\* the promise returned by a connect call settles (driver, outside the source)
ConnectSettle(k, outcome) ==
  /\ connectState[k] = "pending"
  /\ connectState' = [connectState EXCEPT ![k] = outcome]
  /\ UNCHANGED <<nonCacheVars, MONGODB_URI, cacheVars, connectBy, pc, fn, awaited, result>>

Settle == \E k \in Attempts : \E o \in {"fulfilled", "rejected"} : ConnectSettle(k, o)

\* ------------------------------------------------- route-level connectToDatabase
\* lines 16-18: a cached connection is returned at once
CallCached(i, m) ==
  /\ CanCall(i)
  /\ cached[m].conn # NULL
  /\ Leave(i, Handle(cached[m].conn))
  /\ UNCHANGED <<nonCacheVars, MONGODB_URI, cacheVars, connectState, connectBy>>

\* lines 21-25: nothing cached, nothing pending, no MONGODB_URI
CallNoUri(i, m) ==
  /\ CanCall(i)
  /\ cached[m].conn = NULL
  /\ cached[m].promise = NULL
  /\ ~MONGODB_URI
  /\ Leave(i, ConfigurationError)
  /\ UNCHANGED <<nonCacheVars, MONGODB_URI, cacheVars, connectState, connectBy>>

\* variant that starts the connect without publishing its promise
CallConnect_NoPublish(i, m) ==
  /\ CanCall(i)
  /\ cached[m].conn = NULL
  /\ cached[m].promise = NULL
  /\ MONGODB_URI
  /\ StartConnect(i, m)
  /\ UNCHANGED <<nonCacheVars, MONGODB_URI, cacheVars>>

\* lines 21-34: nothing cached, nothing pending: mongoose.connect is called,
\* its promise is stored in cached.promise and the caller awaits it
CallConnect(i, m) ==
  /\ CanCall(i)
  /\ cached[m].conn = NULL
  /\ cached[m].promise = NULL
  /\ MONGODB_URI
  /\ StartConnect(i, m)
  /\ cached' = [cached EXCEPT ![m].promise = NextAttempt]
  /\ UNCHANGED <<nonCacheVars, MONGODB_URI, cachedClient, cachedDb, cachedConnection>>

\* lines 21, 34: a promise is already stored: the caller awaits that one
CallJoin(i, m) ==
  /\ CanCall(i)
  /\ cached[m].conn = NULL
  /\ cached[m].promise # NULL
  /\ pc' = [pc EXCEPT ![i] = "awaiting"]
  /\ fn' = [fn EXCEPT ![i] = m]
  /\ awaited' = [awaited EXCEPT ![i] = cached[m].promise]
  /\ result' = [result EXCEPT ![i] = NoResult]
  /\ UNCHANGED <<nonCacheVars, MONGODB_URI, cacheVars, connectState, connectBy>>

\* lines 34, 40: the awaited promise is fulfilled
ResumeOk(i) ==
  /\ pc[i] = "awaiting"
  /\ fn[i] \in RouteModules
  /\ connectState[awaited[i]] = "fulfilled"
  /\ cached' = [cached EXCEPT ![fn[i]].conn = awaited[i]]
  /\ Leave(i, Handle(cached'[fn[i]].conn))
  /\ UNCHANGED <<nonCacheVars, MONGODB_URI, cachedClient, cachedDb, cachedConnection,
                 connectState, connectBy>>

\* variant that throws without clearing cached.promise
ResumeFail_KeepPromise(i) ==
  /\ pc[i] = "awaiting"
  /\ fn[i] \in RouteModules
  /\ connectState[awaited[i]] = "rejected"
  /\ Leave(i, ConnectionError(awaited[i]))
  /\ UNCHANGED <<nonCacheVars, MONGODB_URI, cacheVars, connectState, connectBy>>

\* variant that swallows the failure and returns cached.conn
ResumeFail_Swallow(i) ==
  /\ pc[i] = "awaiting"
  /\ fn[i] \in RouteModules
  /\ connectState[awaited[i]] = "rejected"
  /\ cached' = [cached EXCEPT ![fn[i]].promise = NULL]
  /\ Leave(i, Handle(cached[fn[i]].conn))
  /\ UNCHANGED <<nonCacheVars, MONGODB_URI, cachedClient, cachedDb, cachedConnection,
                 connectState, connectBy>>

\* variant that resets the whole cache object on a failure
ResumeFail_ResetAll(i) ==
  /\ pc[i] = "awaiting"
  /\ fn[i] \in RouteModules
  /\ connectState[awaited[i]] = "rejected"
  /\ cached' = [cached EXCEPT ![fn[i]] = [conn |-> NULL, promise |-> NULL]]
  /\ Leave(i, ConnectionError(awaited[i]))
  /\ UNCHANGED <<nonCacheVars, MONGODB_URI, cachedClient, cachedDb, cachedConnection,
                 connectState, connectBy>>

\* variant in which a waiter gives up while the connect is still pending
ResumeFail_Timeout(i) ==
  /\ pc[i] = "awaiting"
  /\ fn[i] \in RouteModules
  /\ connectState[awaited[i]] \in {"rejected", "pending"}
  /\ cached' = [cached EXCEPT ![fn[i]].promise = NULL]
  /\ Leave(i, ConnectionError(awaited[i]))
  /\ UNCHANGED <<nonCacheVars, MONGODB_URI, cachedClient, cachedDb, cachedConnection,
                 connectState, connectBy>>

\* lines 35-37: the awaited promise is rejected
ResumeFail(i) ==
  /\ pc[i] = "awaiting"
  /\ fn[i] \in RouteModules
  /\ connectState[awaited[i]] = "rejected"
  /\ cached' = [cached EXCEPT ![fn[i]].promise = NULL]
  /\ Leave(i, ConnectionError(awaited[i]))
  /\ UNCHANGED <<nonCacheVars, MONGODB_URI, cachedClient, cachedDb, cachedConnection,
                 connectState, connectBy>>

\* ------------------------------------------------ lib/db connectToDatabase
\* part_001 lines 5-9: the module throws while loading when the URI is absent
DbModuleLoaded == MONGODB_URI

\* lines 16-18
DbCallCached(i) ==
  /\ DbModuleLoaded
  /\ CanCall(i)
  /\ cachedClient # NULL /\ cachedDb # NULL
  /\ Leave(i, Handle(cachedClient))
  /\ UNCHANGED <<nonCacheVars, MONGODB_URI, cacheVars, connectState, connectBy>>

\* line 20: MongoClient.connect is called and awaited
DbCallConnect(i) ==
  /\ DbModuleLoaded
  /\ CanCall(i)
  /\ ~(cachedClient # NULL /\ cachedDb # NULL)
  /\ StartConnect(i, "db")
  /\ UNCHANGED <<nonCacheVars, MONGODB_URI, cacheVars>>

\* lines 20-26: the connect succeeded: client and db are cached and returned
DbResumeOk(i) ==
  /\ pc[i] = "awaiting"
  /\ fn[i] = "db"
  /\ connectState[awaited[i]] = "fulfilled"
  /\ cachedClient' = awaited[i]
  /\ cachedDb' = awaited[i]
  /\ Leave(i, Handle(awaited[i]))
  /\ UNCHANGED <<nonCacheVars, MONGODB_URI, cached, cachedConnection, connectState, connectBy>>

\* line 20: the connect failed: the rejection leaves the function
DbResumeFail(i) ==
  /\ pc[i] = "awaiting"
  /\ fn[i] = "db"
  /\ connectState[awaited[i]] = "rejected"
  /\ Leave(i, ConnectionError(awaited[i]))
  /\ UNCHANGED <<nonCacheVars, MONGODB_URI, cacheVars, connectState, connectBy>>

\* ------------------------------------------------------------ connectMongo
\* api.ts lines 297-300
MongoCallCached(i) ==
  /\ CanCall(i)
  /\ cachedConnection # NULL
  /\ Leave(i, Handle(cachedConnection))
  /\ UNCHANGED <<nonCacheVars, MONGODB_URI, cacheVars, connectState, connectBy>>

\* lines 304-311
MongoCallNoUri(i) ==
  /\ CanCall(i)
  /\ cachedConnection = NULL
  /\ ~MONGODB_URI
  /\ Leave(i, ConfigurationError)
  /\ UNCHANGED <<nonCacheVars, MONGODB_URI, cacheVars, connectState, connectBy>>

\* variant that connects without looking at cachedConnection
MongoCallConnect_NoCheck(i) ==
  /\ CanCall(i)
  /\ MONGODB_URI
  /\ StartConnect(i, "connectMongo")
  /\ UNCHANGED <<nonCacheVars, MONGODB_URI, cacheVars>>

\* lines 313-316: mongoose.connect is called and awaited
MongoCallConnect(i) ==
  /\ CanCall(i)
  /\ cachedConnection = NULL
  /\ MONGODB_URI
  /\ StartConnect(i, "connectMongo")
  /\ UNCHANGED <<nonCacheVars, MONGODB_URI, cacheVars>>

\* lines 316-322: the connect succeeded: the connection is cached and returned
MongoResumeOk(i) ==
  /\ pc[i] = "awaiting"
  /\ fn[i] = "connectMongo"
  /\ connectState[awaited[i]] = "fulfilled"
  /\ cachedConnection' = awaited[i]
  /\ Leave(i, Handle(awaited[i]))
  /\ UNCHANGED <<nonCacheVars, MONGODB_URI, cached, cachedClient, cachedDb, connectState,
                 connectBy>>

\* lines 323-327: the connect failed: the error is logged and thrown again
MongoResumeFail(i) ==
  /\ pc[i] = "awaiting"
  /\ fn[i] = "connectMongo"
  /\ connectState[awaited[i]] = "rejected"
  /\ Leave(i, ConnectionError(awaited[i]))
  /\ UNCHANGED <<nonCacheVars, MONGODB_URI, cacheVars, connectState, connectBy>>

\* ------------------------------------------------------------ lib/auth.ts
\* characters a JWT_SECRET is made of: two base64 digits and one that is none
SecretChars == {"T", "Q", "!"}
B64Value(c) == IF c = "T" THEN 19 ELSE IF c = "Q" THEN 16 ELSE 64

RECURSIVE StringsUpTo(_)
StringsUpTo(n) ==
  IF n = 0 THEN {<<>>}
  ELSE LET shorter == StringsUpTo(n - 1)
       IN shorter \cup {Append(s, c) : s \in shorter, c \in SecretChars}

SecretStrings == StringsUpTo(MaxSecretLen)

\* the digits of a string that are base64 digits, in order (the decoder of
\* Buffer.from(s, 'base64') skips every other character)
RECURSIVE Sextets(_)
Sextets(s) ==
  IF s = <<>> THEN <<>>
  ELSE IF B64Value(Head(s)) < 64 THEN <<B64Value(Head(s))>> \o Sextets(Tail(s))
       ELSE Sextets(Tail(s))

\* four digits give three bytes, three give two, two give one, one gives none
RECURSIVE BytesOf(_)
BytesOf(d) ==
  IF Len(d) < 2 THEN <<>>
  ELSE LET b1 == d[1] * 4 + d[2] \div 16
       IN IF Len(d) = 2 THEN <<b1>>
          ELSE LET b2 == (d[2] % 16) * 16 + d[3] \div 4
               IN IF Len(d) = 3 THEN <<b1, b2>>
                  ELSE <<b1, b2, (d[3] % 4) * 64 + d[4]>>
                       \o BytesOf(SubSeq(d, 5, Len(d)))

\* Buffer.from(s, 'base64')
BufferFromBase64(s) == BytesOf(Sextets(s))

NullBuffer == [isNull |-> TRUE, bytes |-> <<>>]

\* variant that decodes whatever the environment holds
LoadSecret_DecodeAlways(env) ==
  [isNull |-> FALSE, bytes |-> BufferFromBase64(env.value)]

\* auth.ts lines 9-25, run once when the module is loaded
LoadSecret(env) ==
  IF env.defined /\ env.value # <<>>
  THEN [isNull |-> FALSE, bytes |-> BufferFromBase64(env.value)]
  ELSE NullBuffer

ALGORITHM == "HS256"

\* the keys a token may have been signed with
SigningKeys == {BufferFromBase64(s) : s \in SecretStrings} \cup {<<77, 1>>}
NoExp == -1
\* a compact JWS: header algorithm, how its signature part was made, exp claim
Tokens ==
  [shape : {"jws"},
   alg : {"HS256", "HS384", "none"},
   sig : {[kind |-> "hmac", key |-> k] : k \in SigningKeys}
         \cup {[kind |-> "empty", key |-> <<>>], [kind |-> "tampered", key |-> <<>>]},
   exp : {NoExp} \cup (0..MaxTime)]
MalformedToken ==
  [shape |-> "malformed", alg |-> "none",
   sig |-> [kind |-> "empty", key |-> <<>>], exp |-> NoExp]
\* request.cookies.get('jwt')?.value: undefined, the empty string or a string
NoCookie == [present |-> FALSE, empty |-> TRUE, token |-> MalformedToken]
EmptyCookie == [present |-> TRUE, empty |-> TRUE, token |-> MalformedToken]
CookieValues ==
  {NoCookie, EmptyCookie}
  \cup {[present |-> TRUE, empty |-> FALSE, token |-> t] : t \in Tokens \cup {MalformedToken}}

\* jsonwebtoken verify(token, key, {algorithms}): "ok" or the error it throws
JwtVerify(token, key, algorithms, clock) ==
  IF token.shape # "jws" THEN "JsonWebTokenError"            \* jwt malformed
  ELSE IF token.sig.kind = "empty" THEN "JsonWebTokenError"   \* jwt signature is required
  ELSE IF token.alg \notin algorithms THEN "JsonWebTokenError" \* invalid algorithm
  ELSE IF ~(token.sig.kind = "hmac" /\ token.sig.key = key)
       THEN "JsonWebTokenError"                               \* invalid signature
  ELSE IF token.exp # NoExp /\ clock >= token.exp THEN "TokenExpiredError"
  ELSE "ok"

\* line 37: a call of isAuthenticated begins by reading the jwt cookie
ReadCookie(c) ==
  /\ authPc = "idle"
  /\ requests < MaxRequests
  /\ requests' = requests + 1
  /\ jwtToken' = c
  /\ authPc' = "extracted"
  /\ caught' = "none"
  /\ authOutcome' = "none"
  /\ log' = "none"
  /\ UNCHANGED <<JWT_SECRET, JWT_SECRET_BUFFER, now, verifyCalls>>

\* isAuthenticated(request) is called on its own
AuthBegin(c) ==
  /\ ReadCookie(c)
  /\ UNCHANGED <<MONGODB_URI, cacheVars, callVars, getVars, clientVars, apiVars, uiVars>>

\* variant that treats a request without jwt cookie as an error
AuthNoToken_Throws ==
  /\ authPc = "extracted"
  /\ (~jwtToken.present \/ jwtToken.empty)
  /\ authPc' = "idle"
  /\ log' = "No JWT token found in cookies"
  /\ authOutcome' = "throw"
  /\ UNCHANGED <<MONGODB_URI, cacheVars, callVars, getVars, clientVars, apiVars, uiVars>>
  /\ UNCHANGED <<JWT_SECRET, JWT_SECRET_BUFFER, now, jwtToken, caught, verifyCalls,
                 requests>>

\* lines 40-43: no token
AuthNoToken ==
  /\ authPc = "extracted"
  /\ (~jwtToken.present \/ jwtToken.empty)
  /\ authPc' = "idle"
  /\ log' = "No JWT token found in cookies"
  /\ authOutcome' = "false"
  /\ UNCHANGED <<MONGODB_URI, cacheVars, callVars, getVars, clientVars, apiVars, uiVars>>
  /\ UNCHANGED <<JWT_SECRET, JWT_SECRET_BUFFER, now, jwtToken, caught, verifyCalls,
                 requests>>

\* lines 46-49: no usable secret
AuthNoSecret ==
  /\ authPc = "extracted"
  /\ ~(~jwtToken.present \/ jwtToken.empty)
  /\ JWT_SECRET_BUFFER.isNull
  /\ authPc' = "idle"
  /\ log' = "JWT_SECRET is not configured or invalid"
  /\ authOutcome' = "false"
  /\ UNCHANGED <<MONGODB_URI, cacheVars, callVars, getVars, clientVars, apiVars, uiVars>>
  /\ UNCHANGED <<JWT_SECRET, JWT_SECRET_BUFFER, now, jwtToken, caught, verifyCalls,
                 requests>>

\* variant that calls jwt.verify without the algorithms option
AuthVerify_AnyAlgorithm(outcome) ==
  /\ authPc = "extracted"
  /\ ~(~jwtToken.present \/ jwtToken.empty)
  /\ ~JWT_SECRET_BUFFER.isNull
  /\ \/ outcome = JwtVerify(jwtToken.token, JWT_SECRET_BUFFER.bytes,
                            {"HS256", "HS384"}, now)
     \/ outcome = "JsonWebTokenError" /\ JWT_SECRET_BUFFER.bytes = <<>>
     \/ outcome = "Error"
  /\ verifyCalls' = verifyCalls + 1
  /\ caught' = IF outcome = "ok" THEN "none" ELSE outcome
  /\ authPc' = IF outcome = "ok" THEN "verified" ELSE "catch"
  /\ UNCHANGED <<MONGODB_URI, cacheVars, callVars, getVars, clientVars, apiVars, uiVars>>
  /\ UNCHANGED <<JWT_SECRET, JWT_SECRET_BUFFER, now, jwtToken, authOutcome, requests, log>>

\* line 54: jwt.verify is called; it returns, throws the error of JwtVerify,
\* refuses a key of no bytes (library and runtime versions differ on that) or
\* fails with an error of its own
AuthVerify(outcome) ==
  /\ authPc = "extracted"
  /\ ~(~jwtToken.present \/ jwtToken.empty)
  /\ ~JWT_SECRET_BUFFER.isNull
  /\ \/ outcome = JwtVerify(jwtToken.token, JWT_SECRET_BUFFER.bytes, {ALGORITHM}, now)
     \/ outcome = "JsonWebTokenError" /\ JWT_SECRET_BUFFER.bytes = <<>>
     \/ outcome = "Error"
  /\ verifyCalls' = verifyCalls + 1
  /\ caught' = IF outcome = "ok" THEN "none" ELSE outcome
  /\ authPc' = IF outcome = "ok" THEN "verified" ELSE "catch"
  /\ UNCHANGED <<MONGODB_URI, cacheVars, callVars, getVars, clientVars, apiVars, uiVars>>
  /\ UNCHANGED <<JWT_SECRET, JWT_SECRET_BUFFER, now, jwtToken, authOutcome, requests, log>>

\* lines 59-60
AuthValid ==
  /\ authPc = "verified"
  /\ authPc' = "idle"
  /\ log' = "JWT token validated successfully"
  /\ authOutcome' = "true"
  /\ UNCHANGED <<MONGODB_URI, cacheVars, callVars, getVars, clientVars, apiVars, uiVars>>
  /\ UNCHANGED <<JWT_SECRET, JWT_SECRET_BUFFER, now, jwtToken, caught, verifyCalls,
                 requests>>

\* variant that throws again what is neither of the two jsonwebtoken errors
AuthCatch_Rethrow ==
  /\ authPc = "catch"
  /\ authPc' = "idle"
  /\ log' = IF caught = "TokenExpiredError" THEN "JWT token expired"
            ELSE IF caught = "JsonWebTokenError" THEN "Invalid JWT token"
            ELSE "An unexpected error occurred during JWT verification"
  /\ authOutcome' = IF caught = "Error" THEN "throw" ELSE "false"
  /\ UNCHANGED <<MONGODB_URI, cacheVars, callVars, getVars, clientVars, apiVars, uiVars>>
  /\ UNCHANGED <<JWT_SECRET, JWT_SECRET_BUFFER, now, jwtToken, caught, verifyCalls,
                 requests>>

\* variant that verifies the token again after a failure
AuthCatch_Retry ==
  /\ authPc = "catch"
  /\ authPc' = "extracted"
  /\ UNCHANGED <<MONGODB_URI, cacheVars, callVars, getVars, clientVars, apiVars, uiVars>>
  /\ UNCHANGED <<JWT_SECRET, JWT_SECRET_BUFFER, now, jwtToken, caught, verifyCalls,
                 requests, log, authOutcome>>

\* variant that drops the secret after a failed verification
AuthCatch_ClearSecret ==
  /\ authPc = "catch"
  /\ authPc' = "idle"
  /\ log' = "An unexpected error occurred during JWT verification"
  /\ authOutcome' = "false"
  /\ JWT_SECRET_BUFFER' = NullBuffer
  /\ UNCHANGED <<MONGODB_URI, cacheVars, callVars, getVars, clientVars, apiVars, uiVars>>
  /\ UNCHANGED <<JWT_SECRET, now, jwtToken, caught, verifyCalls, requests>>

\* lines 61-70: every error is logged and turned into false
AuthCatch ==
  /\ authPc = "catch"
  /\ authPc' = "idle"
  /\ log' = IF caught = "TokenExpiredError" THEN "JWT token expired"
            ELSE IF caught = "JsonWebTokenError" THEN "Invalid JWT token"
            ELSE "An unexpected error occurred during JWT verification"
  /\ authOutcome' = "false"
  /\ UNCHANGED <<MONGODB_URI, cacheVars, callVars, getVars, clientVars, apiVars, uiVars>>
  /\ UNCHANGED <<JWT_SECRET, JWT_SECRET_BUFFER, now, jwtToken, caught, verifyCalls,
                 requests>>

\* time passes between two requests
Tick ==
  /\ authPc = "idle"
  /\ now < MaxTime
  /\ now' = now + 1
  /\ UNCHANGED <<MONGODB_URI, cacheVars, callVars, getVars, clientVars, apiVars, uiVars>>
  /\ UNCHANGED <<JWT_SECRET, JWT_SECRET_BUFFER, authPc, jwtToken, caught, authOutcome, log,
                 verifyCalls, requests>>

InitAuth ==
  /\ JWT_SECRET \in {[defined |-> FALSE, value |-> <<>>]}
                    \cup {[defined |-> TRUE, value |-> s] : s \in SecretStrings}
  /\ JWT_SECRET_BUFFER = LoadSecret(JWT_SECRET)
  /\ now = 0
  /\ authPc = "idle"
  /\ jwtToken = NoCookie
  /\ caught = "none"
  /\ authOutcome = "none"
  /\ verifyCalls = 0
  /\ requests = 0
  /\ log = "none"

\* --------------------------- GET /api/movies/recommendations (route.ts 77-105)
NoResponse == [status |-> 0, body |-> "none"]
Unauthorized == [status |-> 401, body |-> "Unauthorized"]
FailedToFetch ==
  [status |-> 500, body |-> "Failed to fetch recommended movies from the database."]
RecommendedMovies == [status |-> 200, body |-> "recommendedMovies"]

\* the key of the secret "TQ" and the jwt cookies that requests to the route carry:
\* none, a string that is no JWS, and tokens that are accepted, expired at time
\* 0, tampered with, or signed under another algorithm
GetKey == BufferFromBase64(<<"T", "Q">>)
GetToken(alg, sig, exp) == [shape |-> "jws", alg |-> alg, sig |-> sig, exp |-> exp]
GetCookies ==
  {NoCookie}
  \cup {[present |-> TRUE, empty |-> FALSE, token |-> t] :
          t \in {MalformedToken,
                 GetToken("HS256", [kind |-> "hmac", key |-> GetKey], NoExp),
                 GetToken("HS256", [kind |-> "hmac", key |-> GetKey], 0),
                 GetToken("HS256", [kind |-> "tampered", key |-> <<>>], NoExp),
                 GetToken("HS384", [kind |-> "hmac", key |-> GetKey], NoExp)}}

\* a request is inside the segment that runs from the entry of GET to the
\* await of line 79; isAuthenticated has no await, so nothing else runs meanwhile
Running == authPc # "idle" \/ \E i \in Callers : handler[i] = "isAuthenticated"

\* lines 77-79 and auth.ts line 37: GET is entered and calls isAuthenticated
GetEnter(i, c) ==
  /\ ~Running
  /\ handler[i] = "idle"
  /\ ReadCookie(c)
  /\ handler' = [handler EXCEPT ![i] = "isAuthenticated"]
  /\ request' = [request EXCEPT ![i] = c]
  /\ UNCHANGED <<authenticated, response, MONGODB_URI, cacheVars, callVars, clientVars,
                 apiVars, uiVars>>

\* line 79: isAuthenticated has returned; GET awaits its promise
GetAwaitAuth(i) ==
  /\ handler[i] = "isAuthenticated"
  /\ authPc = "idle"
  /\ authOutcome \in {"true", "false"}
  /\ handler' = [handler EXCEPT ![i] = "awaitAuth"]
  /\ authenticated' = [authenticated EXCEPT ![i] = authOutcome]
  /\ UNCHANGED <<request, response, authVars, MONGODB_URI, cacheVars, callVars, clientVars,
                 apiVars, uiVars>>

\* variant that tells the client what isAuthenticated logged
GetDenied_TellReason(i) ==
  /\ ~Running
  /\ handler[i] = "awaitAuth"
  /\ authenticated[i] # "true"
  /\ handler' = [handler EXCEPT ![i] = "done"]
  /\ response' = [response EXCEPT ![i] = [status |-> 401, body |-> log]]
  /\ UNCHANGED <<request, authenticated, authVars, MONGODB_URI, cacheVars, callVars,
                 clientVars, apiVars, uiVars>>

\* lines 80-83: not authenticated: 401
GetDenied(i) ==
  /\ ~Running
  /\ handler[i] = "awaitAuth"
  /\ authenticated[i] # "true"
  /\ handler' = [handler EXCEPT ![i] = "done"]
  /\ response' = [response EXCEPT ![i] = Unauthorized]
  /\ UNCHANGED <<request, authenticated, authVars, MONGODB_URI, cacheVars, callVars,
                 clientVars, apiVars, uiVars>>

\* variant that connects before it looks at the result of isAuthenticated
GetProceeds_Unchecked(i) ==
  /\ ~Running
  /\ handler[i] = "awaitAuth"
  /\ pc[i] = "idle"

\* lines 80, 87: authenticated: GET goes on to call connectToDatabase
GetProceeds(i) ==
  /\ ~Running
  /\ handler[i] = "awaitAuth"
  /\ authenticated[i] = "true"
  /\ pc[i] = "idle"

\* line 87: the call of connectToDatabase, by what it finds in the cache
GetCallCached(i) == GetProceeds(i) /\ CallCached(i, "recommendations")
GetCallNoUri(i) == GetProceeds(i) /\ CallNoUri(i, "recommendations")
GetCallConnect(i) == GetProceeds(i) /\ CallConnect(i, "recommendations")
GetCallJoin(i) == GetProceeds(i) /\ CallJoin(i, "recommendations")

\* line 87: connectToDatabase resumes inside a request
GetResumeOk(i) == ~Running /\ handler[i] = "awaitAuth" /\ ResumeOk(i)
GetResumeFail(i) == ~Running /\ handler[i] = "awaitAuth" /\ ResumeFail(i)

\* the driver settles a connect while no request is running
GetSettle == ~Running /\ Settle

\* lines 87-92: connectToDatabase has returned: Movie.aggregate is called
GetQuery(i) ==
  /\ ~Running
  /\ handler[i] = "awaitAuth"
  /\ pc[i] = "returned"
  /\ handler' = [handler EXCEPT ![i] = "query"]
  /\ UNCHANGED <<request, authenticated, response, authVars, MONGODB_URI, cacheVars,
                 callVars, clientVars, apiVars, uiVars>>

\* lines 87, 97-103: connectToDatabase has thrown: 500
GetConnectFailed(i) ==
  /\ ~Running
  /\ handler[i] = "awaitAuth"
  /\ pc[i] = "thrown"
  /\ handler' = [handler EXCEPT ![i] = "done"]
  /\ response' = [response EXCEPT ![i] = FailedToFetch]
  /\ UNCHANGED <<request, authenticated, authVars, MONGODB_URI, cacheVars, callVars,
                 clientVars, apiVars, uiVars>>

\* lines 90-95: the aggregation returns: 200 with the movies
GetQueryOk(i) ==
  /\ ~Running
  /\ handler[i] = "query"
  /\ handler' = [handler EXCEPT ![i] = "done"]
  /\ response' = [response EXCEPT ![i] = RecommendedMovies]
  /\ UNCHANGED <<request, authenticated, authVars, MONGODB_URI, cacheVars, callVars,
                 clientVars, apiVars, uiVars>>

\* lines 90, 97-103: the aggregation fails: 500
GetQueryFail(i) ==
  /\ ~Running
  /\ handler[i] = "query"
  /\ handler' = [handler EXCEPT ![i] = "done"]
  /\ response' = [response EXCEPT ![i] = FailedToFetch]
  /\ UNCHANGED <<request, authenticated, authVars, MONGODB_URI, cacheVars, callVars,
                 clientVars, apiVars, uiVars>>

InitGet ==
  /\ handler = [i \in Callers |-> "idle"]
  /\ request = [i \in Callers |-> NoCookie]
  /\ authenticated = [i \in Callers |-> "none"]
  /\ response = [i \in Callers |-> NoResponse]

\* ------------------------------------------- the clientPromise module (part_000)
\* lines 4-6: the module is evaluated without MONGODB_URI and throws
ClientModuleThrows ==
  /\ clientModule = "unloaded"
  /\ ~MONGODB_URI
  /\ clientModule' = "failed"
  /\ UNCHANGED <<NODE_ENV, clientPromise, globalMongoClientPromise>>
  /\ UNCHANGED <<authVars, getVars, MONGODB_URI, cacheVars, callVars, apiVars, uiVars>>

\* lines 15-25: development: the client is created and connect() called unless
\* global._mongoClientPromise is set already; clientPromise is the global one
ClientModuleLoadDevelopment ==
  /\ clientModule = "unloaded"
  /\ MONGODB_URI
  /\ NODE_ENV = "development"
  /\ IF globalMongoClientPromise = NULL
     THEN /\ NextAttempt <= MaxConnects
          /\ connectState' = [connectState EXCEPT ![NextAttempt] = "pending"]
          /\ connectBy' = [connectBy EXCEPT ![NextAttempt] = "clientPromise"]
          /\ globalMongoClientPromise' = NextAttempt
     ELSE UNCHANGED <<connectState, connectBy, globalMongoClientPromise>>
  /\ clientPromise' = globalMongoClientPromise'
  /\ clientModule' = "loaded"
  /\ UNCHANGED <<NODE_ENV, authVars, getVars, MONGODB_URI, cacheVars, pc, fn, awaited,
                 result, apiVars, uiVars>>

\* lines 26-30: otherwise: the client is created and connect() called
ClientModuleLoadProduction ==
  /\ clientModule = "unloaded"
  /\ MONGODB_URI
  /\ NODE_ENV # "development"
  /\ NextAttempt <= MaxConnects
  /\ connectState' = [connectState EXCEPT ![NextAttempt] = "pending"]
  /\ connectBy' = [connectBy EXCEPT ![NextAttempt] = "clientPromise"]
  /\ clientPromise' = NextAttempt
  /\ clientModule' = "loaded"
  /\ UNCHANGED <<NODE_ENV, globalMongoClientPromise, authVars, getVars, MONGODB_URI,
                 cacheVars, pc, fn, awaited, result, apiVars, uiVars>>

\* lines 16-17: a hot reload in development discards the module; global stays
ClientHotReload ==
  /\ clientModule = "loaded"
  /\ NODE_ENV = "development"
  /\ clientModule' = "unloaded"
  /\ clientPromise' = NULL
  /\ UNCHANGED <<NODE_ENV, globalMongoClientPromise>>
  /\ UNCHANGED <<authVars, getVars, MONGODB_URI, cacheVars, callVars, apiVars, uiVars>>

\* line 34: a consumer awaits the exported clientPromise
ClientAwait(i) ==
  /\ CanCall(i)
  /\ clientModule = "loaded"
  /\ pc' = [pc EXCEPT ![i] = "awaiting"]
  /\ fn' = [fn EXCEPT ![i] = "clientPromise"]
  /\ awaited' = [awaited EXCEPT ![i] = clientPromise]
  /\ result' = [result EXCEPT ![i] = NoResult]
  /\ UNCHANGED <<nonCacheVars, MONGODB_URI, cacheVars, connectState, connectBy>>

\* the awaited clientPromise is fulfilled: the consumer has the client
ClientResumeOk(i) ==
  /\ pc[i] = "awaiting"
  /\ fn[i] = "clientPromise"
  /\ connectState[awaited[i]] = "fulfilled"
  /\ Leave(i, Handle(awaited[i]))
  /\ UNCHANGED <<nonCacheVars, MONGODB_URI, cacheVars, connectState, connectBy>>

\* the awaited clientPromise is rejected: the await throws
ClientResumeFail(i) ==
  /\ pc[i] = "awaiting"
  /\ fn[i] = "clientPromise"
  /\ connectState[awaited[i]] = "rejected"
  /\ Leave(i, ConnectionError(awaited[i]))
  /\ UNCHANGED <<nonCacheVars, MONGODB_URI, cacheVars, connectState, connectBy>>

InitClient ==
  /\ NODE_ENV \in {"development", "production"}
  /\ clientModule = "unloaded"
  /\ clientPromise = NULL
  /\ globalMongoClientPromise = NULL

\* ------ GET /api/movies, GET /api/movies/search, /api/test and /api/migrate
ApiRoutes == {"movies", "search", "test", "migrate"}
Methods == {"GET", "POST"}
NoRequest == [url |-> "none", method |-> "none"]

\* the acquisition function each handler calls: movies/route.ts line 77,
\* search/route.ts line 7, test.ts line 12, migrate.ts line 83
AcquisitionOf(r) ==
  IF r = "movies" THEN "movies" ELSE IF r = "search" THEN "db" ELSE "connectMongo"

\* error.message: what an error says; the attempt it belongs to is not in it
NoMessage == "none"
Message(error) ==
  IF error.kind # "error" THEN error.kind
  ELSE IF error = ConfigurationError THEN "Please define the MONGODB_URI environment variable"
  ELSE "connect failed"

\* the error of a rejected query, and the error thrown by the CSV stream or by
\* an insert (a duplicate key among them)
DriverError == [kind |-> "query failed", id |-> NULL]
WriteError == [kind |-> "write failed", id |-> NULL]

\* res.status(s).json(...): details is the error.message that the body carries
JsonResponse(s, b, d) == [status |-> s, body |-> b, details |-> d]
NoRes == JsonResponse(0, "none", NoMessage)
MethodNotAllowed == JsonResponse(405, "Method Not Allowed", NoMessage)

\* the catch block of each handler: movies/route.ts 84-91, search/route.ts
\* 10-13, test.ts 46-50, migrate.ts 136-140
Caught(r, error) ==
  IF r = "movies"
  THEN JsonResponse(500, "Failed to fetch movies from the database.", NoMessage)
  ELSE IF r = "search"
  THEN JsonResponse(500, "Failed to fetch movies", NoMessage)
  ELSE IF r = "test"
  THEN JsonResponse(500, "Failed to connect to MongoDB or process the request.",
                    Message(error))
  ELSE JsonResponse(500, "Data migration failed.", Message(error))

\* Movie.countDocuments({})
CountDocuments == movies.csv * CsvRows + movies.test

\* mongoose has a connection: one of its connect calls is fulfilled
MongooseConnected ==
  \E k \in Attempts : /\ connectBy[k] \in RouteModules \cup {"connectMongo"}
                      /\ connectState[k] = "fulfilled"

\* handler i answers with r and returns; its frame is gone
Respond(i, r) ==
  /\ step' = [step EXCEPT ![i] = "done"]
  /\ res' = [res EXCEPT ![i] = r]
  /\ pc' = [pc EXCEPT ![i] = "idle"]
  /\ result' = [result EXCEPT ![i] = NoResult]
  /\ UNCHANGED <<connectState, connectBy, fn, awaited>>

\* the two API layers of the application: the route handlers of the app
\* directory and the handlers of pages/api
LayerOf(r) == IF r \in {"test", "migrate"} THEN "pages" ELSE "app"

\* the layer that serves the request of slot j, "none" for a free slot
Serving(j) ==
  IF handler[j] # "idle" THEN "app"
  ELSE IF step[j] # "idle" THEN LayerOf(req[j].url)
  ELSE "none"

\* slot i is free, and the requests of one run all go to layer l
Admits(i, l) == Serving(i) = "none" /\ \A j \in Callers : Serving(j) \in {"none", l}

\* the framework dispatches a request to its handler; the app routes export
\* GET only, the pages handlers are called for every method, and only
\* /api/migrate looks at it
ApiEnter(i, r, m) ==
  /\ ~Running
  /\ Admits(i, LayerOf(r))
  /\ pc[i] = "idle"
  /\ r # "migrate" => m = "GET"
  /\ r = "search" => DbModuleLoaded
  /\ req' = [req EXCEPT ![i] = [url |-> r, method |-> m]]
  /\ step' = [step EXCEPT ![i] = "entered"]
  /\ UNCHANGED <<res, movies, idIndex>>
  /\ UNCHANGED <<MONGODB_URI, cacheVars, callVars, authVars, getVars, clientVars, uiVars>>

\* migrate.ts lines 75-77: only GET is served
MigrateMethodNotAllowed(i) ==
  /\ ~Running
  /\ step[i] = "entered"
  /\ req[i].url = "migrate"
  /\ req[i].method # "GET"
  /\ Respond(i, MethodNotAllowed)
  /\ UNCHANGED <<req, movies, idIndex>>
  /\ UNCHANGED <<MONGODB_URI, cacheVars, authVars, getVars, clientVars, uiVars>>

\* the handler of route r is about to call its acquisition function
ApiProceeds(i, r) ==
  /\ ~Running
  /\ step[i] = "entered"
  /\ req[i].url = r
  /\ r = "migrate" => req[i].method = "GET"
  /\ pc[i] = "idle"

\* connectMongo is called by /api/test and by /api/migrate
MongoProceeds(i) == ApiProceeds(i, "test") \/ ApiProceeds(i, "migrate")

\* movies/route.ts line 77: the call of connectToDatabase, by what it finds
MoviesCallCached(i) == ApiProceeds(i, "movies") /\ CallCached(i, "movies")
MoviesCallNoUri(i) == ApiProceeds(i, "movies") /\ CallNoUri(i, "movies")
MoviesCallConnect(i) == ApiProceeds(i, "movies") /\ CallConnect(i, "movies")
MoviesCallJoin(i) == ApiProceeds(i, "movies") /\ CallJoin(i, "movies")

\* search/route.ts line 7
SearchCallCached(i) == ApiProceeds(i, "search") /\ DbCallCached(i)
SearchCallConnect(i) == ApiProceeds(i, "search") /\ DbCallConnect(i)

\* test.ts line 12, migrate.ts line 83
PagesCallCached(i) == MongoProceeds(i) /\ MongoCallCached(i)
PagesCallNoUri(i) == MongoProceeds(i) /\ MongoCallNoUri(i)
PagesCallConnect(i) == MongoProceeds(i) /\ MongoCallConnect(i)

\* the acquisition function resumes inside a request
Suspended(i) == ~Running /\ step[i] = "entered"
MoviesResumeOk(i) == Suspended(i) /\ ResumeOk(i)
MoviesResumeFail(i) == Suspended(i) /\ ResumeFail(i)
SearchResumeOk(i) == Suspended(i) /\ DbResumeOk(i)
SearchResumeFail(i) == Suspended(i) /\ DbResumeFail(i)
PagesResumeOk(i) == Suspended(i) /\ MongoResumeOk(i)
PagesResumeFail(i) == Suspended(i) /\ MongoResumeFail(i)

\* variant in which the handler does not wait for its acquisition call
ApiQuery_NoAwait(i) ==
  /\ ~Running
  /\ step[i] = "entered"
  /\ pc[i] \in {"returned", "awaiting"}
  /\ step' = [step EXCEPT ![i] =
                IF req[i].url \in {"movies", "search"} THEN "find" ELSE "countDocuments"]
  /\ UNCHANGED <<req, res, movies, idIndex>>
  /\ UNCHANGED <<MONGODB_URI, cacheVars, callVars, authVars, getVars, clientVars, uiVars>>

\* the acquisition call has returned: the handler issues its first query
\* (movies/route.ts 80, search/route.ts 8, test.ts 16, migrate.ts 86)
ApiQuery(i) ==
  /\ ~Running
  /\ step[i] = "entered"
  /\ pc[i] = "returned"
  /\ step' = [step EXCEPT ![i] =
                IF req[i].url \in {"movies", "search"} THEN "find" ELSE "countDocuments"]
  /\ UNCHANGED <<req, res, movies, idIndex>>
  /\ UNCHANGED <<MONGODB_URI, cacheVars, callVars, authVars, getVars, clientVars, uiVars>>

\* the acquisition call has thrown: the catch block answers
ApiConnectFailed(i) ==
  /\ ~Running
  /\ step[i] = "entered"
  /\ pc[i] = "thrown"
  /\ Respond(i, Caught(req[i].url, result[i]))
  /\ UNCHANGED <<req, movies, idIndex>>
  /\ UNCHANGED <<MONGODB_URI, cacheVars, authVars, getVars, clientVars, uiVars>>

\* movies/route.ts 80-83, search/route.ts 8-9: the movies are returned
FindOk(i) ==
  /\ ~Running
  /\ step[i] = "find"
  /\ Respond(i, JsonResponse(200, "movies", NoMessage))
  /\ UNCHANGED <<req, movies, idIndex>>
  /\ UNCHANGED <<MONGODB_URI, cacheVars, authVars, getVars, clientVars, uiVars>>

\* the query is rejected: the catch block answers
FindFail(i) ==
  /\ ~Running
  /\ step[i] = "find"
  /\ Respond(i, Caught(req[i].url, DriverError))
  /\ UNCHANGED <<req, movies, idIndex>>
  /\ UNCHANGED <<MONGODB_URI, cacheVars, authVars, getVars, clientVars, uiVars>>

\* test.ts 16-31 and 42-45: the count is read; an empty collection gets the
\* test movie, otherwise the count is reported
TestCount(i) ==
  /\ ~Running
  /\ step[i] = "countDocuments"
  /\ req[i].url = "test"
  /\ IF CountDocuments = 0
     THEN /\ step' = [step EXCEPT ![i] = "create"]
          /\ UNCHANGED <<res, callVars>>
     ELSE Respond(i, JsonResponse(200, "MongoDB is connected and contains existing data.",
                                  NoMessage))
  /\ UNCHANGED <<req, movies, idIndex>>
  /\ UNCHANGED <<MONGODB_URI, cacheVars, authVars, getVars, clientVars, uiVars>>

\* migrate.ts 86-102: the count is read; a populated collection ends the
\* request, otherwise the CSV file is opened
MigrateCount(i) ==
  /\ ~Running
  /\ step[i] = "countDocuments"
  /\ req[i].url = "migrate"
  /\ IF CountDocuments > 0
     THEN Respond(i, JsonResponse(200, "Database is already populated. Migration not needed.",
                                  NoMessage))
     ELSE /\ step' = [step EXCEPT ![i] = "readCsv"]
          /\ UNCHANGED <<res, callVars>>
  /\ UNCHANGED <<req, movies, idIndex>>
  /\ UNCHANGED <<MONGODB_URI, cacheVars, authVars, getVars, clientVars, uiVars>>

\* test.ts 16, migrate.ts 86: countDocuments is rejected
CountFail(i) ==
  /\ ~Running
  /\ step[i] = "countDocuments"
  /\ Respond(i, Caught(req[i].url, DriverError))
  /\ UNCHANGED <<req, movies, idIndex>>
  /\ UNCHANGED <<MONGODB_URI, cacheVars, authVars, getVars, clientVars, uiVars>>

\* test.ts 31-38: Movie.create stores the test movie (id 999) unless the
\* unique index finds the id in the collection
TestCreateOk(i) ==
  /\ ~Running
  /\ step[i] = "create"
  /\ ~(idIndex /\ movies.test > 0)
  /\ movies' = [movies EXCEPT !.test = @ + 1]
  /\ Respond(i, JsonResponse(201, "MongoDB is connected and a test movie was created!",
                             NoMessage))
  /\ UNCHANGED <<req, idIndex>>
  /\ UNCHANGED <<MONGODB_URI, cacheVars, authVars, getVars, clientVars, uiVars>>

\* migrate.ts 102-129: the stream ends and Movie.insertMany is called
CsvEnd(i) ==
  /\ ~Running
  /\ step[i] = "readCsv"
  /\ step' = [step EXCEPT ![i] = "insertMany"]
  /\ UNCHANGED <<req, res, movies, idIndex>>
  /\ UNCHANGED <<MONGODB_URI, cacheVars, callVars, authVars, getVars, clientVars, uiVars>>

\* migrate.ts 129-135: the rows are inserted unless the unique index finds
\* their ids in the collection
InsertManyOk(i) ==
  /\ ~Running
  /\ step[i] = "insertMany"
  /\ ~(idIndex /\ movies.csv > 0)
  /\ movies' = [movies EXCEPT !.csv = @ + 1]
  /\ Respond(i, JsonResponse(200, "Data migration successful!", NoMessage))
  /\ UNCHANGED <<req, idIndex>>
  /\ UNCHANGED <<MONGODB_URI, cacheVars, authVars, getVars, clientVars, uiVars>>

\* the CSV stream, Movie.create or Movie.insertMany fails (a duplicate key
\* under the unique index, or any driver error): the catch block answers
WriteFail(i) ==
  /\ ~Running
  /\ step[i] \in {"create", "readCsv", "insertMany"}
  /\ Respond(i, Caught(req[i].url, WriteError))
  /\ UNCHANGED <<req, movies, idIndex>>
  /\ UNCHANGED <<MONGODB_URI, cacheVars, authVars, getVars, clientVars, uiVars>>

\* Movie.ts lines 23-27 and 60: mongoose builds the unique index on id some
\* time after it has a connection; no handler waits for it, and the build
\* fails when the collection holds an id twice
EnsureIndex ==
  /\ ~Running
  /\ ~idIndex
  /\ MongooseConnected
  /\ movies.csv <= 1 /\ movies.test <= 1
  /\ idIndex' = TRUE
  /\ UNCHANGED <<req, step, res, movies>>
  /\ UNCHANGED <<MONGODB_URI, cacheVars, callVars, authVars, getVars, clientVars, uiVars>>

\* a request to the protected route arrives
ApiGetEnter(i, c) == Admits(i, "app") /\ GetEnter(i, c)

InitApi ==
  /\ req = [i \in Callers |-> NoRequest]
  /\ step = [i \in Callers |-> "idle"]
  /\ res = [i \in Callers |-> NoRes]
  /\ movies = [csv |-> 0, test |-> 0]
  /\ idIndex = FALSE


\* ------------------------------------------------------- the server as a whole
serverVars == <<MONGODB_URI, cacheVars, callVars, authVars, getVars, clientVars, apiVars>>

\* ------------- home page search (part_004 lines 88-119, app/page.tsx 130-157)
\* strings are sequences of characters
Blank == <<>>
Queries == {Blank, <<" ">>, <<"a">>, <<"A">>, <<"b">>}

\* String.prototype.trim
RECURSIVE Trim(_)
Trim(s) ==
  IF s = <<>> THEN s
  ELSE IF Head(s) = " " THEN Trim(Tail(s))
  ELSE IF s[Len(s)] = " " THEN Trim(SubSeq(s, 1, Len(s) - 1))
  ELSE s

\* String.prototype.toLowerCase
ToLowerCase(s) ==
  [n \in 1..Len(s) |-> IF s[n] = "A" THEN "a" ELSE IF s[n] = "B" THEN "b" ELSE s[n]]

\* String.prototype.includes
Includes(s, q) ==
  \E n \in 1..(Len(s) + 1) : n + Len(q) - 1 <= Len(s) /\ SubSeq(s, n, n + Len(q) - 1) = q

\* what fetchAllMovies may deliver: nothing yet, a catalogue, or a catalogue
\* with a movie that has no title
Missing == <<"undefined">>
Catalogue == {[title |-> <<"A", "b">>, genre |-> <<"c">>],
              [title |-> <<"b">>, genre |-> <<"a">>]}
Incomplete == Catalogue \cup {[title |-> Missing, genre |-> <<"a">>]}

\* app/page.tsx lines 140-143: one movie against the query; a missing title
\* makes toLowerCase throw
Matches(m, q) ==
  \/ Includes(ToLowerCase(m.title), ToLowerCase(q))
  \/ Includes(ToLowerCase(m.genre), ToLowerCase(q))
FilterThrows(all) == \E m \in all : m.title = Missing
Filter(all, q) == {m \in all : Matches(m, q)}

\* the values of searchResults: the empty list, what the search API answered
\* to a query, or the outcome of the local filter
Cleared == [from |-> "none", query |-> Blank, list |-> {}]
ResponseData(q) == [from |-> "api", query |-> q, list |-> {}]
Filtered(all, q) == [from |-> "filter", query |-> q, list |-> Filter(all, q)]

SearchFailed == "Failed to perform search. Please try again."

\* variant of the effect that has no cleanup
Effect_NoCleanup(previous, q) == timers' = timers \cup {q}

\* the effect runs again: the cleanup clears the timer of the previous run
\* (part_004 116-118, page.tsx 154-156) and a new timer is set (112-114, 132)
Effect(previous, q) == timers' = (timers \ {previous}) \cup {q}

\* the user edits the search box: setSearchQuery, then the effect
SetSearchQuery(q) ==
  /\ q # searchQuery
  /\ searchQuery' = q
  /\ Effect(searchQuery, q)
  /\ UNCHANGED <<homePage, allMovies, searches, searchResults, errorSearch, loadingSearch>>
  /\ UNCHANGED <<serverVars, cardVars, detailVars, formVars>>

\* app/page.tsx lines 105-115 and 157: the movies arrive; allMovies is a
\* dependency of the effect of the local version
SetAllMovies(all) ==
  /\ homePage = "local"
  /\ allMovies = {}
  /\ all # {}
  /\ allMovies' = all
  /\ Effect(searchQuery, searchQuery)
  /\ UNCHANGED <<homePage, searchQuery, searches, searchResults, errorSearch, loadingSearch>>
  /\ UNCHANGED <<serverVars, cardVars, detailVars, formVars>>

\* part_004 91-95, page.tsx 133-137: the timer fires for a blank query
TimerBlank(q) ==
  /\ q \in timers
  /\ Trim(q) = Blank
  /\ timers' = timers \ {q}
  /\ searchResults' = Cleared
  /\ errorSearch' = "none"
  /\ UNCHANGED <<homePage, searchQuery, allMovies, searches, loadingSearch>>
  /\ UNCHANGED <<serverVars, cardVars, detailVars, formVars>>

\* part_004 97-99: the timer fires: searchMovies is called and awaited
TimerSearch(q) ==
  /\ homePage = "remote"
  /\ q \in timers
  /\ Trim(q) # Blank
  /\ Len(searches) < MaxSearches
  /\ timers' = timers \ {q}
  /\ loadingSearch' = TRUE
  /\ searches' = Append(searches, [query |-> q, state |-> "pending"])
  /\ UNCHANGED <<homePage, searchQuery, allMovies, searchResults, errorSearch>>
  /\ UNCHANGED <<serverVars, cardVars, detailVars, formVars>>

\* page.tsx 138-151: the timer fires: the movies are filtered on the spot
TimerFilter(q) ==
  /\ homePage = "local"
  /\ q \in timers
  /\ Trim(q) # Blank
  /\ timers' = timers \ {q}
  /\ IF FilterThrows(allMovies)
     THEN /\ errorSearch' = SearchFailed
          /\ UNCHANGED searchResults
     ELSE /\ searchResults' = Filtered(allMovies, q)
          /\ errorSearch' = "none"
  /\ loadingSearch' = FALSE
  /\ UNCHANGED <<homePage, searchQuery, allMovies, searches>>
  /\ UNCHANGED <<serverVars, cardVars, detailVars, formVars>>

\* part_004 99-101, 107 and part_002 159-163: the response arrives
SearchOk(k) ==
  /\ k \in 1..Len(searches)
  /\ searches[k].state = "pending"
  /\ searches' = [searches EXCEPT ![k].state = "fulfilled"]
  /\ searchResults' = ResponseData(searches[k].query)
  /\ errorSearch' = "none"
  /\ loadingSearch' = FALSE
  /\ UNCHANGED <<homePage, searchQuery, allMovies, timers>>
  /\ UNCHANGED <<serverVars, cardVars, detailVars, formVars>>

\* part_004 102-107 and part_002 164-166: the request fails
SearchFail(k) ==
  /\ k \in 1..Len(searches)
  /\ searches[k].state = "pending"
  /\ searches' = [searches EXCEPT ![k].state = "rejected"]
  /\ errorSearch' = SearchFailed
  /\ loadingSearch' = FALSE
  /\ UNCHANGED <<homePage, searchQuery, allMovies, timers, searchResults>>
  /\ UNCHANGED <<serverVars, cardVars, detailVars, formVars>>

\* the page is mounted: the effect has run once for the empty query
InitSearch ==
  /\ searchQuery = Blank
  /\ allMovies = {}
  /\ timers = {Blank}
  /\ searches = <<>>
  /\ searchResults = Cleared
  /\ errorSearch = "none"
  /\ loadingSearch = FALSE

\* ---- watchlist toggling: MovieCard.tsx 15-65 and movies/[id]/page.tsx 29-157
Card == "MovieCard"
Page == "MovieDetailsPage"
Components == {Card, Page}

\* a movie, by whether it has a title and a genre; null
NoMovie == [present |-> FALSE, title |-> FALSE, genre |-> FALSE]
Movies == [present : {TRUE}, title : BOOLEAN, genre : BOOLEAN]

NoneInFlight == [add |-> 0, remove |-> 0]
InFlight(c) == toggling[c].add + toggling[c].remove

Added == "added to watchlist!"
Removed == "removed from watchlist!"
MissingDetails == "Missing movie details to add to watchlist."
UpdateFailed == "Failed to update watchlist."

\* MovieCard.tsx 20-34: the effect runs after the card is mounted
CardEffect(m) ==
  /\ checking = "mounted"
  /\ movie' = [movie EXCEPT ![Card] = m]
  /\ loadingWatchlist' = [loadingWatchlist EXCEPT ![Card] = TRUE]
  /\ checking' = "checkMovieInWatchlist"
  /\ UNCHANGED <<isInWatchlist, toggling, toast>>
  /\ UNCHANGED <<serverVars, searchVars, detailVars, formVars>>

\* MovieCard.tsx 24-31 and part_002 141-149: checkMovieInWatchlist answers;
\* it answers false when its request fails
CheckStatus(isAdded) ==
  /\ checking = "checkMovieInWatchlist"
  /\ isInWatchlist' = [isInWatchlist EXCEPT ![Card] = isAdded]
  /\ loadingWatchlist' = [loadingWatchlist EXCEPT ![Card] = FALSE]
  /\ checking' = "done"
  /\ UNCHANGED <<movie, toggling, toast>>
  /\ UNCHANGED <<serverVars, searchVars, detailVars, formVars>>

\* variant of the guard that lets every click through
CanToggle_Always(c) == movie[c].present

\* MovieCard.tsx 40, page.tsx 112: a click is ignored while the component is
\* loading (and on the page while there is no movie)
CanToggle(c) == movie[c].present /\ ~loadingWatchlist[c]

\* MovieCard.tsx 42-45, page.tsx 114-117: the movie is in the watchlist:
\* removeMovieFromWatchlist is called and awaited
ToggleRemove(c) ==
  /\ CanToggle(c)
  /\ isInWatchlist[c]
  /\ InFlight(c) < MaxInFlight
  /\ loadingWatchlist' = [loadingWatchlist EXCEPT ![c] = TRUE]
  /\ toggling' = [toggling EXCEPT ![c].remove = @ + 1]
  /\ UNCHANGED <<movie, isInWatchlist, checking, toast>>
  /\ UNCHANGED <<serverVars, searchVars, detailVars, formVars>>

\* MovieCard.tsx 42-54, page.tsx 114-125: it is not: addMovieToWatchlist is
\* called and awaited
ToggleAdd(c) ==
  /\ CanToggle(c)
  /\ ~isInWatchlist[c]
  /\ movie[c].title /\ movie[c].genre
  /\ InFlight(c) < MaxInFlight
  /\ loadingWatchlist' = [loadingWatchlist EXCEPT ![c] = TRUE]
  /\ toggling' = [toggling EXCEPT ![c].add = @ + 1]
  /\ UNCHANGED <<movie, isInWatchlist, checking, toast>>
  /\ UNCHANGED <<serverVars, searchVars, detailVars, formVars>>

\* MovieCard.tsx 42-53 and 62-64, page.tsx 114-124 and 133-135: the movie has
\* no title or no genre: a toast, and the finally block resets the flag
ToggleMissing(c) ==
  /\ CanToggle(c)
  /\ ~isInWatchlist[c]
  /\ ~(movie[c].title /\ movie[c].genre)
  /\ toast' = MissingDetails
  /\ loadingWatchlist' = [loadingWatchlist EXCEPT ![c] = FALSE]
  /\ UNCHANGED <<movie, isInWatchlist, checking, toggling>>
  /\ UNCHANGED <<serverVars, searchVars, detailVars, formVars>>

\* MovieCard.tsx 45-47 and 62-64, page.tsx 117-119 and 133-135
RemoveOk(c) ==
  /\ toggling[c].remove > 0
  /\ toggling' = [toggling EXCEPT ![c].remove = @ - 1]
  /\ isInWatchlist' = [isInWatchlist EXCEPT ![c] = FALSE]
  /\ toast' = Removed
  /\ loadingWatchlist' = [loadingWatchlist EXCEPT ![c] = FALSE]
  /\ UNCHANGED <<movie, checking>>
  /\ UNCHANGED <<serverVars, searchVars, detailVars, formVars>>

\* MovieCard.tsx 54-56 and 62-64, page.tsx 125-127 and 133-135
AddOk(c) ==
  /\ toggling[c].add > 0
  /\ toggling' = [toggling EXCEPT ![c].add = @ - 1]
  /\ isInWatchlist' = [isInWatchlist EXCEPT ![c] = TRUE]
  /\ toast' = Added
  /\ loadingWatchlist' = [loadingWatchlist EXCEPT ![c] = FALSE]
  /\ UNCHANGED <<movie, checking>>
  /\ UNCHANGED <<serverVars, searchVars, detailVars, formVars>>

\* MovieCard.tsx 58-64, page.tsx 129-135: the request fails
ToggleFail(c, kind) ==
  /\ toggling[c][kind] > 0
  /\ toggling' = [toggling EXCEPT ![c][kind] = @ - 1]
  /\ toast' = UpdateFailed
  /\ loadingWatchlist' = [loadingWatchlist EXCEPT ![c] = FALSE]
  /\ UNCHANGED <<movie, isInWatchlist, checking>>
  /\ UNCHANGED <<serverVars, searchVars, detailVars, formVars>>

InitCard ==
  /\ movie = [c \in Components |-> NoMovie]
  /\ isInWatchlist = [c \in Components |-> FALSE]
  /\ loadingWatchlist = [c \in Components |-> TRUE]
  /\ checking = "mounted"
  /\ toggling = [c \in Components |-> NoneInFlight]
  /\ toast = "none"

\* ---------------------------- the movie details page (movies/[id]/page.tsx)
Ratings == {1, 10}
NoRating == 0

InvalidId == "Invalid movie ID."
NotFound == "Movie not found."
LoadFailed == "Failed to load movie details. Please try again later."
RatingFailed == "Failed to submit rating."

\* lines 46-60: the effect runs after the page is mounted; an id that is not
\* a number ends it, otherwise fetchAllMovies is called and awaited
PageEffect(isNaN) ==
  /\ effect = "mounted"
  /\ IF isNaN
     THEN /\ pageError' = InvalidId
          /\ loading' = [loading EXCEPT ![Page] = FALSE]
          /\ toast' = "Invalid movie ID provided."
          /\ effect' = "done"
          /\ UNCHANGED <<loadingRating, loadingWatchlist>>
     ELSE /\ loading' = [loading EXCEPT ![Page] = TRUE]
          /\ loadingRating' = TRUE
          /\ loadingWatchlist' = [loadingWatchlist EXCEPT ![Page] = TRUE]
          /\ effect' = "fetchAllMovies"
          /\ UNCHANGED <<pageError, toast>>
  /\ UNCHANGED <<movie, isInWatchlist, checking, toggling>>
  /\ UNCHANGED <<submittingRating, rating, userRating>>
  /\ UNCHANGED <<serverVars, searchVars, formVars>>

\* lines 60-69: the movies arrive and the movie is among them:
\* checkMovieInWatchlist is called and awaited
MovieFound(m) ==
  /\ effect = "fetchAllMovies"
  /\ movie' = [movie EXCEPT ![Page] = m]
  /\ pageError' = "none"
  /\ effect' = "checkMovieInWatchlist"
  /\ UNCHANGED <<isInWatchlist, loadingWatchlist, checking, toggling, toast>>
  /\ UNCHANGED <<loading, loadingRating, submittingRating, rating, userRating>>
  /\ UNCHANGED <<serverVars, searchVars, formVars>>

\* lines 60-63, 95-98 and 103-105: the movies arrive without the movie
MovieNotFound ==
  /\ effect = "fetchAllMovies"
  /\ pageError' = NotFound
  /\ toast' = NotFound
  /\ loading' = [loading EXCEPT ![Page] = FALSE]
  /\ effect' = "done"
  /\ UNCHANGED <<movie, isInWatchlist, loadingWatchlist, checking, toggling>>
  /\ UNCHANGED <<loadingRating, submittingRating, rating, userRating>>
  /\ UNCHANGED <<serverVars, searchVars, formVars>>

\* lines 60 and 99-105: fetchAllMovies fails
FetchAllMoviesFail ==
  /\ effect = "fetchAllMovies"
  /\ pageError' = LoadFailed
  /\ toast' = "Failed to load movie details. Please check the backend service."
  /\ loading' = [loading EXCEPT ![Page] = FALSE]
  /\ effect' = "done"
  /\ UNCHANGED <<movie, isInWatchlist, loadingWatchlist, checking, toggling>>
  /\ UNCHANGED <<loadingRating, submittingRating, rating, userRating>>
  /\ UNCHANGED <<serverVars, searchVars, formVars>>

\* lines 69-79: checkMovieInWatchlist answers; fetchUserRatingForMovie is
\* called and awaited
PageCheckStatus(isAdded) ==
  /\ effect = "checkMovieInWatchlist"
  /\ isInWatchlist' = [isInWatchlist EXCEPT ![Page] = isAdded]
  /\ loadingWatchlist' = [loadingWatchlist EXCEPT ![Page] = FALSE]
  /\ effect' = "fetchUserRatingForMovie"
  /\ UNCHANGED <<movie, checking, toggling, toast>>
  /\ UNCHANGED <<loading, pageError, loadingRating, submittingRating, rating, userRating>>
  /\ UNCHANGED <<serverVars, searchVars, formVars>>

\* lines 79-87: the user's rating arrives (r, or none), or the request fails
\* and the rating shown stays; fetchAverageRatingForMovie is called
UserRatingSettles(ok, r) ==
  /\ effect = "fetchUserRatingForMovie"
  /\ userRating' = IF ok THEN r ELSE userRating
  /\ effect' = "fetchAverageRatingForMovie"
  /\ UNCHANGED <<loading, pageError, loadingRating, submittingRating, rating>>
  /\ UNCHANGED <<serverVars, searchVars, cardVars, formVars>>

\* lines 87-93 and 103-105: the average arrives or fails: the effect ends
AverageRatingSettles ==
  /\ effect = "fetchAverageRatingForMovie"
  /\ loadingRating' = FALSE
  /\ loading' = [loading EXCEPT ![Page] = FALSE]
  /\ effect' = "done"
  /\ UNCHANGED <<pageError, submittingRating, rating, userRating>>
  /\ UNCHANGED <<serverVars, searchVars, cardVars, formVars>>

\* lines 139-144: a rating is chosen: addOrUpdateRating is called and awaited
HandleRatingSubmit(r) ==
  /\ movie[Page].present
  /\ ~submittingRating
  /\ submittingRating' = TRUE
  /\ rating' = [at |-> "addOrUpdateRating", value |-> r]
  /\ UNCHANGED <<effect, loading, pageError, loadingRating, userRating>>
  /\ UNCHANGED <<serverVars, searchVars, cardVars, formVars>>

\* lines 144-148: the rating is stored: it is shown and the average fetched
RatingStored ==
  /\ rating.at = "addOrUpdateRating"
  /\ userRating' = rating.value
  /\ toast' = "You rated"
  /\ rating' = [rating EXCEPT !.at = "fetchAverageRatingForMovie"]
  /\ UNCHANGED <<movie, isInWatchlist, loadingWatchlist, checking, toggling>>
  /\ UNCHANGED <<effect, loading, pageError, loadingRating, submittingRating>>
  /\ UNCHANGED <<serverVars, searchVars, formVars>>

\* lines 148-149 and 154-156: the new average arrives
RatingAverageOk ==
  /\ rating.at = "fetchAverageRatingForMovie"
  /\ submittingRating' = FALSE
  /\ rating' = [rating EXCEPT !.at = "none"]
  /\ UNCHANGED <<effect, loading, pageError, loadingRating, userRating>>
  /\ UNCHANGED <<serverVars, searchVars, cardVars, formVars>>

\* lines 150-156: either request of handleRatingSubmit fails
RatingFail ==
  /\ rating.at # "none"
  /\ toast' = RatingFailed
  /\ submittingRating' = FALSE
  /\ rating' = [rating EXCEPT !.at = "none"]
  /\ UNCHANGED <<movie, isInWatchlist, loadingWatchlist, checking, toggling>>
  /\ UNCHANGED <<effect, loading, pageError, loadingRating, userRating>>
  /\ UNCHANGED <<serverVars, searchVars, formVars>>

InitDetails ==
  /\ effect = "mounted"
  /\ loading = [c \in {"AuthForm", Page} |-> c = Page]
  /\ pageError = "none"
  /\ loadingRating = TRUE
  /\ submittingRating = FALSE
  /\ rating = [at |-> "none", value |-> NoRating]
  /\ userRating = NoRating

\* ------------------------------------------- AuthForm.tsx 25-57 and 110
Auth == "AuthForm"
Navbar == "Navbar"
Profile == "ProfilePage"

\* AuthForm.tsx 37-40, 44 and 110: the form is submitted (the button is
\* disabled while loading): loginUser or registerUser is called and awaited
AuthSubmit ==
  /\ ~loading[Auth]
  /\ submit = "none"
  /\ loading' = [loading EXCEPT ![Auth] = TRUE]
  /\ submit' = IF mode = "login" THEN "loginUser" ELSE "registerUser"
  /\ UNCHANGED <<mode, loadingLogout, logout, userProfile, loadingProfile, errorProfile,
                 isSubmitting, data, update, payload, sensitiveDataChanged, router>>
  /\ UNCHANGED <<effect, pageError, loadingRating, submittingRating, rating, userRating>>
  /\ UNCHANGED <<serverVars, searchVars, cardVars>>

\* AuthForm.tsx 41-48 and 54-56
AuthOk ==
  /\ submit # "none"
  /\ toast' = IF submit = "loginUser" THEN "Login successful!"
              ELSE "Registration successful! Please log in."
  /\ router' = [router EXCEPT ![Auth] = IF submit = "loginUser" THEN "/" ELSE "/login"]
  /\ loading' = [loading EXCEPT ![Auth] = FALSE]
  /\ submit' = "none"
  /\ UNCHANGED <<mode, loadingLogout, logout, userProfile, loadingProfile, errorProfile,
                 isSubmitting, data, update, payload, sensitiveDataChanged>>
  /\ UNCHANGED <<movie, isInWatchlist, loadingWatchlist, checking, toggling>>
  /\ UNCHANGED <<effect, pageError, loadingRating, submittingRating, rating, userRating>>
  /\ UNCHANGED <<serverVars, searchVars>>

\* AuthForm.tsx 49-56
AuthFail ==
  /\ submit # "none"
  /\ toast' = "An unexpected pageError occurred."
  /\ loading' = [loading EXCEPT ![Auth] = FALSE]
  /\ submit' = "none"
  /\ UNCHANGED <<mode, loadingLogout, logout, userProfile, loadingProfile, errorProfile,
                 isSubmitting, data, update, payload, sensitiveDataChanged, router>>
  /\ UNCHANGED <<movie, isInWatchlist, loadingWatchlist, checking, toggling>>
  /\ UNCHANGED <<effect, pageError, loadingRating, submittingRating, rating, userRating>>
  /\ UNCHANGED <<serverVars, searchVars>>

\* --------------------------------------------- Navbar (part_003 11-27, 61)
\* lines 15-18 and 61: the button is disabled while loadingLogout
HandleLogout ==
  /\ ~loadingLogout
  /\ logout = "none"
  /\ loadingLogout' = TRUE
  /\ logout' = "logoutUser"
  /\ UNCHANGED <<mode, submit, userProfile, loadingProfile, errorProfile,
                 isSubmitting, data, update, payload, sensitiveDataChanged, router>>
  /\ UNCHANGED <<serverVars, searchVars, cardVars, detailVars>>

\* lines 18-20 and 24-26
LogoutOk ==
  /\ logout = "logoutUser"
  /\ toast' = "Logged out successfully!"
  /\ router' = [router EXCEPT ![Navbar] = "/login"]
  /\ loadingLogout' = FALSE
  /\ logout' = "none"
  /\ UNCHANGED <<mode, submit, userProfile, loadingProfile, errorProfile,
                 isSubmitting, data, update, payload, sensitiveDataChanged>>
  /\ UNCHANGED <<movie, isInWatchlist, loadingWatchlist, checking, toggling>>
  /\ UNCHANGED <<serverVars, searchVars, detailVars>>

\* lines 21-26
LogoutFail ==
  /\ logout = "logoutUser"
  /\ toast' = "Logout failed."
  /\ loadingLogout' = FALSE
  /\ logout' = "none"
  /\ UNCHANGED <<mode, submit, userProfile, loadingProfile, errorProfile,
                 isSubmitting, data, update, payload, sensitiveDataChanged, router>>
  /\ UNCHANGED <<movie, isInWatchlist, loadingWatchlist, checking, toggling>>
  /\ UNCHANGED <<serverVars, searchVars, detailVars>>

\* ------------------------------------------------ profile page (part_005)
\* texts are sequences of characters; the empty text is what an empty input gives
NoText == <<>>
UserEmail == <<"u", "@", "x">>
NewEmail == <<"n", "@", "x">>
Emails == {NoText, <<"u">>, UserEmail, NewEmail}
OldPassword == <<"o", "l", "d">>
ShortPassword == <<"s", "e", "c", "r", "e">>
NewPassword == <<"s", "e", "c", "r", "e", "t">>
OtherPassword == <<"s", "e", "c", "r", "e", "T">>

NoProfile == [present |-> FALSE, email |-> NoText]
NoPayload == [email |-> NoText, currentPassword |-> NoText, newPassword |-> NoText]

\* line 15, z.string().email(): an @ with text on both sides
IsEmail(e) == \E i \in 2..(Len(e) - 1) : e[i] = "@"

\* lines 14-47: profileUpdateSchema and its three refinements
Valid(d) ==
  /\ IsEmail(d.email) /\ Len(d.email) >= 1
  /\ Len(d.newPassword) > 0 => Len(d.currentPassword) > 0 /\ Len(d.confirmNewPassword) > 0
  /\ Len(d.newPassword) > 0 => Len(d.newPassword) >= 6
  /\ (Len(d.newPassword) > 0 /\ Len(d.confirmNewPassword) > 0)
       => d.newPassword = d.confirmNewPassword

FormInputs ==
  [email : Emails,
   currentPassword : {NoText, OldPassword},
   newPassword : {NoText, ShortPassword, NewPassword},
   confirmNewPassword : {NoText, NewPassword, OtherPassword}]

\* lines 101-104: the email is sent when it differs from the profile's
EmailChanged(d) == userProfile.present /\ d.email # userProfile.email

\* lines 107-111: the passwords are sent when a new one is given
PasswordGiven(d) == Len(d.newPassword) > 0

\* lines 95-111: the payload built from the form values
PayloadOf(d) ==
  [email |-> IF EmailChanged(d) THEN d.email ELSE NoText,
   currentPassword |-> IF PasswordGiven(d) THEN d.currentPassword ELSE NoText,
   newPassword |-> IF PasswordGiven(d) THEN d.newPassword ELSE NoText]

\* variant of the flag that forgets the email
SensitiveOf_PasswordOnly(d) == PasswordGiven(d)

\* lines 98, 103 and 110: sensitiveDataChanged
SensitiveOf(d) == EmailChanged(d) \/ PasswordGiven(d)

\* line 114: Object.keys(payload).length === 0
IsEmptyPayload(p) == p = NoPayload

\* lines 70-74 and 88: the effect runs after the page is mounted
ProfileEffect ==
  /\ update = "mounted"
  /\ loadingProfile' = TRUE
  /\ update' = "getProfile"
  /\ UNCHANGED <<mode, submit, loadingLogout, logout, userProfile, errorProfile,
                 isSubmitting, data, payload, sensitiveDataChanged, router>>
  /\ UNCHANGED <<serverVars, searchVars, cardVars, detailVars>>

\* lines 74-78 and 84-86: the profile arrives
GetProfileOk(e) ==
  /\ update = "getProfile"
  /\ userProfile' = [present |-> TRUE, email |-> e]
  /\ errorProfile' = "none"
  /\ loadingProfile' = FALSE
  /\ update' = "none"
  /\ UNCHANGED <<mode, submit, loadingLogout, logout,
                 isSubmitting, data, payload, sensitiveDataChanged, router>>
  /\ UNCHANGED <<serverVars, searchVars, cardVars, detailVars>>

\* lines 79-86: fetchUserProfile fails
GetProfileFail ==
  /\ update = "getProfile"
  /\ errorProfile' = "Failed to load profile."
  /\ toast' = "Failed to load profile. Please log in again."
  /\ router' = [router EXCEPT ![Profile] = "/login"]
  /\ loadingProfile' = FALSE
  /\ update' = "none"
  /\ UNCHANGED <<mode, submit, loadingLogout, logout, userProfile,
                 isSubmitting, data, payload, sensitiveDataChanged>>
  /\ UNCHANGED <<movie, isInWatchlist, loadingWatchlist, checking, toggling>>
  /\ UNCHANGED <<serverVars, searchVars, detailVars>>

\* lines 152-189 and 281: the form is shown once the profile is loaded, and
\* its button is disabled while isSubmitting; handleSubmit passes valid values
CanSubmit(d) ==
  /\ ~loadingProfile /\ errorProfile = "none" /\ userProfile.present
  /\ ~isSubmitting
  /\ update = "none"
  /\ Valid(d)

\* lines 91-117 and 147-149: nothing to send: a toast, and the finally block
SubmitNoChanges(d) ==
  /\ CanSubmit(d)
  /\ IsEmptyPayload(PayloadOf(d))
  /\ data' = d
  /\ payload' = PayloadOf(d)
  /\ sensitiveDataChanged' = SensitiveOf(d)
  /\ toast' = "No changes detected."
  /\ isSubmitting' = FALSE
  /\ UNCHANGED <<mode, submit, loadingLogout, logout, userProfile, loadingProfile,
                 errorProfile, update, router>>
  /\ UNCHANGED <<movie, isInWatchlist, loadingWatchlist, checking, toggling>>
  /\ UNCHANGED <<serverVars, searchVars, detailVars>>

\* lines 91-119: updateUserProfile is called with the payload and awaited
SubmitUpdate(d) ==
  /\ CanSubmit(d)
  /\ ~IsEmptyPayload(PayloadOf(d))
  /\ data' = d
  /\ payload' = PayloadOf(d)
  /\ sensitiveDataChanged' = SensitiveOf(d)
  /\ isSubmitting' = TRUE
  /\ update' = "updateUserProfile"
  /\ UNCHANGED <<mode, submit, loadingLogout, logout, userProfile, loadingProfile,
                 errorProfile, router>>
  /\ UNCHANGED <<serverVars, searchVars, cardVars, detailVars>>

Updated == "Profile updated successfully!"
NotUpdated == "Failed to update profile."

\* lines 119-126 and 135-138: the update succeeded: logoutUser is called when
\* sensitive data changed, fetchUserProfile otherwise
UpdateOk ==
  /\ update = "updateUserProfile"
  /\ toast' = Updated
  /\ update' = IF sensitiveDataChanged THEN "logoutUser" ELSE "fetchUserProfile"
  /\ UNCHANGED <<mode, submit, loadingLogout, logout, userProfile, loadingProfile,
                 errorProfile, isSubmitting, data, payload, sensitiveDataChanged, router>>
  /\ UNCHANGED <<movie, isInWatchlist, loadingWatchlist, checking, toggling>>
  /\ UNCHANGED <<serverVars, searchVars, detailVars>>

\* lines 119 and 143-149: the update failed
UpdateFail ==
  /\ update = "updateUserProfile"
  /\ toast' = NotUpdated
  /\ isSubmitting' = FALSE
  /\ update' = "none"
  /\ UNCHANGED <<mode, submit, loadingLogout, logout, userProfile, loadingProfile,
                 errorProfile, data, payload, sensitiveDataChanged, router>>
  /\ UNCHANGED <<movie, isInWatchlist, loadingWatchlist, checking, toggling>>
  /\ UNCHANGED <<serverVars, searchVars, detailVars>>

\* lines 125-141 and 143-149: the request made after the update settles:
\* after logoutUser the page redirects whether it succeeded or not; after
\* fetchUserProfile the profile is replaced, or the catch block reports
AfterUpdateSettles(ok) ==
  /\ update \in {"logoutUser", "fetchUserProfile"}
  /\ IF update = "logoutUser"
     THEN /\ toast' = IF ok THEN "Profile updated! Please log in with your new credentials."
                      ELSE "Logout failed, but profile updated. Please log in again."
          /\ router' = [router EXCEPT ![Profile] = "/login"]
          /\ UNCHANGED userProfile
     ELSE /\ toast' = IF ok THEN toast ELSE NotUpdated
          /\ userProfile' = IF ok THEN [present |-> TRUE, email |-> data.email]
                            ELSE userProfile
          /\ UNCHANGED router
  /\ isSubmitting' = FALSE
  /\ update' = "none"
  /\ UNCHANGED <<mode, submit, loadingLogout, logout, loadingProfile,
                 errorProfile, data, payload, sensitiveDataChanged>>
  /\ UNCHANGED <<movie, isInWatchlist, loadingWatchlist, checking, toggling>>
  /\ UNCHANGED <<serverVars, searchVars, detailVars>>

InitForms ==
  /\ submit = "none"
  /\ loadingLogout = FALSE
  /\ logout = "none"
  /\ userProfile = NoProfile
  /\ loadingProfile = TRUE
  /\ errorProfile = "none"
  /\ isSubmitting = FALSE
  /\ data = [email |-> NoText, currentPassword |-> NoText, newPassword |-> NoText,
             confirmNewPassword |-> NoText]
  /\ update = "mounted"
  /\ payload = NoPayload
  /\ sensitiveDataChanged = FALSE
  /\ router = [c \in {Auth, Navbar, Profile} |-> "none"]

InitUi == InitSearch /\ InitCard /\ InitDetails /\ InitForms /\ mode = "login"


\* ------------------------------------------------------------ specification
InitCaches ==
  /\ MONGODB_URI \in BOOLEAN
  /\ cached = [m \in RouteModules |-> [conn |-> NULL, promise |-> NULL]]
  /\ cachedClient = NULL
  /\ cachedDb = NULL
  /\ cachedConnection = NULL
  /\ connectState = [k \in Attempts |-> "none"]
  /\ connectBy = [k \in Attempts |-> "none"]
  /\ pc = [i \in Callers |-> "idle"]
  /\ fn = [i \in Callers |-> "none"]
  /\ awaited = [i \in Callers |-> NULL]
  /\ result = [i \in Callers |-> NoResult]

InitServer == InitCaches /\ InitAuth /\ InitGet /\ InitClient /\ InitApi
Init == InitServer /\ InitUi /\ homePage = "remote"

\* the caches on their own: one configuration of the gate, which stays idle
InitCachesOnly ==
  /\ Init
  /\ JWT_SECRET = [defined |-> TRUE, value |-> <<"T", "Q">>]
  /\ NODE_ENV = "production"

\* the gate on its own: the caches stay untouched
InitAuthOnly ==
  /\ Init
  /\ MONGODB_URI
  /\ NODE_ENV = "production"

\* the protected route: the secret "TQ" or none, MONGODB_URI defined or not
InitGetOnly ==
  /\ Init
  /\ JWT_SECRET \in {[defined |-> FALSE, value |-> <<>>],
                     [defined |-> TRUE, value |-> <<"T", "Q">>]}
  /\ NODE_ENV = "production"

\* the modules that use the mongodb driver: either NODE_ENV
InitDriverOnly ==
  /\ Init
  /\ JWT_SECRET = [defined |-> TRUE, value |-> <<"T", "Q">>]

\* a call of the route-level connectToDatabase of module m
RouteCall(m) ==
  \/ \E i \in Callers : CallCached(i, m)
  \/ \E i \in Callers : CallNoUri(i, m)
  \/ \E i \in Callers : CallConnect(i, m)
  \/ \E i \in Callers : CallJoin(i, m)

\* a caller resumes inside the route-level connectToDatabase
RouteResume ==
  \/ \E i \in Callers : ResumeOk(i)
  \/ \E i \in Callers : ResumeFail(i)

DbStep ==
  \/ \E i \in Callers : DbCallCached(i)
  \/ \E i \in Callers : DbCallConnect(i)
  \/ \E i \in Callers : DbResumeOk(i)
  \/ \E i \in Callers : DbResumeFail(i)

MongoStep ==
  \/ \E i \in Callers : MongoCallCached(i)
  \/ \E i \in Callers : MongoCallNoUri(i)
  \/ \E i \in Callers : MongoCallConnect(i)
  \/ \E i \in Callers : MongoResumeOk(i)
  \/ \E i \in Callers : MongoResumeFail(i)

vars == <<MONGODB_URI, cacheVars, callVars, authVars, getVars, clientVars, apiVars, uiVars>>

\* requests to the two routes that define the {conn, promise} cache
NextRoute ==
  \/ \E m \in RouteModules : RouteCall(m)
  \/ RouteResume
  \/ Settle

SpecRoute == InitCachesOnly /\ [][NextRoute]_vars

\* requests to the handlers that use lib/db and connectMongo
NextLib ==
  \/ DbStep
  \/ MongoStep
  \/ Settle

SpecLib == InitCachesOnly /\ [][NextLib]_vars

\* requests that use one cache of each kind
NextCaches ==
  \/ RouteCall("recommendations")
  \/ RouteResume
  \/ DbStep
  \/ MongoStep
  \/ Settle

SpecCaches == InitCachesOnly /\ [][NextCaches]_vars

\* requests that reach isAuthenticated, one after the other (it never suspends)
NextAuth ==
  \/ \E c \in CookieValues : AuthBegin(c)
  \/ AuthNoToken
  \/ AuthNoSecret
  \/ \E o \in {"ok", "TokenExpiredError", "JsonWebTokenError", "Error"} : AuthVerify(o)
  \/ AuthValid
  \/ AuthCatch
  \/ Tick

SpecAuth == InitAuthOnly /\ [][NextAuth]_vars

\* requests to GET /api/movies/recommendations
NextGet ==
  \/ \E i \in Callers : \E c \in GetCookies : GetEnter(i, c)
  \/ AuthNoToken
  \/ AuthNoSecret
  \/ \E o \in {"ok", "TokenExpiredError", "JsonWebTokenError", "Error"} : AuthVerify(o)
  \/ AuthValid
  \/ AuthCatch
  \/ \E i \in Callers : GetAwaitAuth(i)
  \/ \E i \in Callers : GetDenied(i)
  \/ \E i \in Callers : GetCallCached(i)
  \/ \E i \in Callers : GetCallNoUri(i)
  \/ \E i \in Callers : GetCallConnect(i)
  \/ \E i \in Callers : GetCallJoin(i)
  \/ \E i \in Callers : GetResumeOk(i)
  \/ \E i \in Callers : GetResumeFail(i)
  \/ GetSettle
  \/ \E i \in Callers : GetQuery(i)
  \/ \E i \in Callers : GetConnectFailed(i)
  \/ \E i \in Callers : GetQueryOk(i)
  \/ \E i \in Callers : GetQueryFail(i)

SpecGet == InitGetOnly /\ [][NextGet]_vars

\* the API as a whole: all five handlers over the three caches, with the
\* secret "TQ"; the protected route is asked without a cookie and with an
\* accepted token
InitApiOnly ==
  /\ Init
  /\ JWT_SECRET = [defined |-> TRUE, value |-> <<"T", "Q">>]
  /\ NODE_ENV = "production"

ApiCookies ==
  {NoCookie,
   [present |-> TRUE, empty |-> FALSE,
    token |-> GetToken("HS256", [kind |-> "hmac", key |-> GetKey], NoExp)]}

ApiAcquire ==
  \/ \E i \in Callers : MoviesCallCached(i)
  \/ \E i \in Callers : MoviesCallNoUri(i)
  \/ \E i \in Callers : MoviesCallConnect(i)
  \/ \E i \in Callers : MoviesCallJoin(i)
  \/ \E i \in Callers : MoviesResumeOk(i)
  \/ \E i \in Callers : MoviesResumeFail(i)
  \/ \E i \in Callers : SearchCallCached(i)
  \/ \E i \in Callers : SearchCallConnect(i)
  \/ \E i \in Callers : SearchResumeOk(i)
  \/ \E i \in Callers : SearchResumeFail(i)
  \/ \E i \in Callers : PagesCallCached(i)
  \/ \E i \in Callers : PagesCallNoUri(i)
  \/ \E i \in Callers : PagesCallConnect(i)
  \/ \E i \in Callers : PagesResumeOk(i)
  \/ \E i \in Callers : PagesResumeFail(i)

ApiHandle ==
  \/ \E i \in Callers : \E r \in ApiRoutes : \E m \in Methods : ApiEnter(i, r, m)
  \/ \E i \in Callers : MigrateMethodNotAllowed(i)
  \/ \E i \in Callers : ApiQuery(i)
  \/ \E i \in Callers : ApiConnectFailed(i)
  \/ \E i \in Callers : FindOk(i)
  \/ \E i \in Callers : FindFail(i)
  \/ \E i \in Callers : TestCount(i)
  \/ \E i \in Callers : MigrateCount(i)
  \/ \E i \in Callers : CountFail(i)
  \/ \E i \in Callers : TestCreateOk(i)
  \/ \E i \in Callers : CsvEnd(i)
  \/ \E i \in Callers : InsertManyOk(i)
  \/ \E i \in Callers : WriteFail(i)
  \/ EnsureIndex

ApiProtected ==
  \/ \E i \in Callers : \E c \in ApiCookies : ApiGetEnter(i, c)
  \/ AuthNoToken
  \/ AuthVerify("ok")
  \/ AuthValid
  \/ \E i \in Callers : GetAwaitAuth(i)
  \/ \E i \in Callers : GetDenied(i)
  \/ \E i \in Callers : GetCallCached(i)
  \/ \E i \in Callers : GetCallNoUri(i)
  \/ \E i \in Callers : GetCallConnect(i)
  \/ \E i \in Callers : GetCallJoin(i)
  \/ \E i \in Callers : GetResumeOk(i)
  \/ \E i \in Callers : GetResumeFail(i)
  \/ \E i \in Callers : GetQuery(i)
  \/ \E i \in Callers : GetConnectFailed(i)
  \/ \E i \in Callers : GetQueryOk(i)
  \/ \E i \in Callers : GetQueryFail(i)

NextApi ==
  \/ ApiAcquire
  \/ ApiHandle
  \/ ApiProtected
  \/ GetSettle

SpecApi == InitApiOnly /\ [][NextApi]_vars

\* the home page, in either version; the server is left alone
InitSearchOnly ==
  /\ InitServer
  /\ InitUi
  /\ homePage \in {"remote", "local"}
  /\ MONGODB_URI
  /\ JWT_SECRET = [defined |-> TRUE, value |-> <<"T", "Q">>]
  /\ NODE_ENV = "production"

NextSearch ==
  \/ \E q \in Queries : SetSearchQuery(q)
  \/ \E all \in {Catalogue, Incomplete} : SetAllMovies(all)
  \/ \E q \in Queries : TimerBlank(q)
  \/ \E q \in Queries : TimerSearch(q)
  \/ \E q \in Queries : TimerFilter(q)
  \/ \E k \in 1..MaxSearches : SearchOk(k)
  \/ \E k \in 1..MaxSearches : SearchFail(k)

SpecSearch == InitSearchOnly /\ [][NextSearch]_vars

\* the user interface on its own: one configuration of the server, which stays idle
InitUiOnly ==
  /\ InitServer
  /\ InitSearch /\ InitCard /\ InitDetails /\ InitForms
  /\ mode \in {"login", "register"}
  /\ homePage = "remote"
  /\ MONGODB_URI
  /\ JWT_SECRET = [defined |-> TRUE, value |-> <<"T", "Q">>]
  /\ NODE_ENV = "production"

\* handleToggleWatchlist of either component
Toggle(c) ==
  \/ ToggleRemove(c)
  \/ ToggleAdd(c)
  \/ ToggleMissing(c)
  \/ RemoveOk(c)
  \/ AddOk(c)
  \/ \E kind \in {"add", "remove"} : ToggleFail(c, kind)

\* the effect of the movie details page
GetMovieAndRatings ==
  \/ \E isNaN \in BOOLEAN : PageEffect(isNaN)
  \/ \E m \in Movies : MovieFound(m)
  \/ MovieNotFound
  \/ FetchAllMoviesFail
  \/ \E isAdded \in BOOLEAN : PageCheckStatus(isAdded)
  \/ \E ok \in BOOLEAN, r \in Ratings \cup {NoRating} : UserRatingSettles(ok, r)
  \/ AverageRatingSettles

\* handleRatingSubmit of the movie details page
RatingSubmit ==
  \/ \E r \in Ratings : HandleRatingSubmit(r)
  \/ RatingStored
  \/ RatingAverageOk
  \/ RatingFail

\* a movie card and the movie details page
NextCard ==
  \/ \E m \in Movies : CardEffect(m)
  \/ \E isAdded \in BOOLEAN : CheckStatus(isAdded)
  \/ \E c \in Components : Toggle(c)
  \/ GetMovieAndRatings
  \/ RatingSubmit

SpecCard == InitUiOnly /\ [][NextCard]_vars

\* the profile page
NextProfile ==
  \/ ProfileEffect
  \/ \E e \in {UserEmail, NewEmail} : GetProfileOk(e)
  \/ GetProfileFail
  \/ \E d \in FormInputs : SubmitNoChanges(d)
  \/ \E d \in FormInputs : SubmitUpdate(d)
  \/ UpdateOk
  \/ UpdateFail
  \/ \E ok \in BOOLEAN : AfterUpdateSettles(ok)

SpecProfile == InitUiOnly /\ [][NextProfile]_vars

\* the values the profile form is submitted with when the other components
\* run beside it: unchanged, or with a new password
BusyInputs ==
  {[email |-> UserEmail, currentPassword |-> OldPassword,
    newPassword |-> n, confirmNewPassword |-> n] : n \in {NoText, NewPassword}}

\* every component that keeps a busy flag, each with one input per outcome
NextBusy ==
  \/ AuthSubmit
  \/ AuthOk
  \/ AuthFail
  \/ HandleLogout
  \/ LogoutOk
  \/ LogoutFail
  \/ ProfileEffect
  \/ GetProfileOk(UserEmail)
  \/ GetProfileFail
  \/ \E d \in BusyInputs : SubmitNoChanges(d)
  \/ \E d \in BusyInputs : SubmitUpdate(d)
  \/ UpdateOk
  \/ UpdateFail
  \/ \E ok \in BOOLEAN : AfterUpdateSettles(ok)
  \/ \E isNaN \in BOOLEAN : PageEffect(isNaN)
  \/ MovieFound([present |-> TRUE, title |-> TRUE, genre |-> TRUE])
  \/ MovieNotFound
  \/ FetchAllMoviesFail
  \/ PageCheckStatus(TRUE)
  \/ \E ok \in BOOLEAN : UserRatingSettles(ok, NoRating)
  \/ AverageRatingSettles
  \/ HandleRatingSubmit(10)
  \/ RatingStored
  \/ RatingAverageOk
  \/ RatingFail

SpecBusy == InitUiOnly /\ [][NextBusy]_vars

\* the clientPromise module and its consumers
ClientStep ==
  \/ ClientModuleThrows
  \/ ClientModuleLoadDevelopment
  \/ ClientModuleLoadProduction
  \/ ClientHotReload
  \/ \E i \in Callers : ClientAwait(i)
  \/ \E i \in Callers : ClientResumeOk(i)
  \/ \E i \in Callers : ClientResumeFail(i)

\* the modules that use the mongodb driver: clientPromise and lib/db
NextDriver ==
  \/ ClientStep
  \/ DbStep
  \/ Settle

SpecDriver == InitDriverOnly /\ [][NextDriver]_vars

\* the route-level cache of one module, with the scheduling the runtime
\* guarantees: a continuation whose promise has settled is run eventually
NextWait ==
  \/ RouteCall("recommendations")
  \/ RouteResume
  \/ Settle

Fairness ==
  \A i \in Callers : WF_vars(ResumeOk(i)) /\ WF_vars(ResumeFail(i))

SpecWait == InitCachesOnly /\ [][NextWait]_vars /\ Fairness

\* =================================================================== claims
\* the handle a cache holds, NULL when it holds none
CachedHandle(f) ==
  IF f \in RouteModules THEN cached[f].conn
  ELSE IF f = "db" THEN (IF cachedClient # NULL /\ cachedDb # NULL THEN cachedClient ELSE NULL)
  ELSE cachedConnection

Unsettled(f) == {k \in ConnectsOf(f) : connectState[k] = "pending"}
NoneSettled(f) == \A k \in ConnectsOf(f) : connectState[k] = "pending"

\* caller i leaves its acquisition function in this step
Leaves(i) == pc[i] = "awaiting" /\ pc'[i] # "awaiting"

\* C1: route-level cache, MONGODB_URI defined: as long as no connect of a
\* module has settled, the callers that are inside its connectToDatabase have
\* caused exactly one mongoose.connect call between them, and every caller that
\* resumes from a fulfilled promise returns the handle that promise carries, so
\* all callers of one initialization return the same handle.
C1_OneConnectSameHandle ==
  /\ [](\A m \in RouteModules :
          (MONGODB_URI /\ NoneSettled(m) /\ (\E i \in Callers : fn[i] = m))
            => ConnectCalls(m) = 1)
  /\ [][\A i \in Callers :
          (Leaves(i) /\ fn[i] \in RouteModules /\ connectState[awaited[i]] = "fulfilled")
            => (pc'[i] = "returned" /\ result'[i] = Handle(awaited[i]))]_vars

\* C1 witness: one connect call in all, fulfilled; one caller has returned its
\* handle while another caller is still suspended on the same promise
C1_Witness ==
  \E i, j \in Callers :
    /\ i # j
    /\ \A k \in Attempts : connectBy[k] # "none" => k = 1
    /\ connectBy[1] \in RouteModules
    /\ pc[i] = "returned" /\ result[i] = Handle(1)
    /\ pc[j] = "awaiting" /\ awaited[j] = 1 /\ fn[j] = connectBy[1]

C3_LibExactlyOnce ==
  \A f \in {"db", "connectMongo"} : NoneSettled(f) => ConnectCalls(f) <= 1

\* C5: route-level cache: a caller suspended on a promise leaves only when the
\* promise has settled, and then with the outcome of that promise: the handle it
\* carries when fulfilled, its failure (thrown) when rejected.
C5_SameOutcome ==
  [][\A i \in Callers :
       (Leaves(i) /\ fn[i] \in RouteModules)
         => \/ /\ connectState[awaited[i]] = "fulfilled"
               /\ pc'[i] = "returned"
               /\ result'[i] = Handle(awaited[i])
            \/ /\ connectState[awaited[i]] = "rejected"
               /\ pc'[i] = "thrown"
               /\ result'[i] = ConnectionError(awaited[i])]_vars

\* C5 witness: two callers have thrown the failure of the same connect call
C5_Witness ==
  \E i, j \in Callers : \E k \in Attempts :
    /\ i # j
    /\ connectBy[k] \in RouteModules
    /\ pc[i] = "thrown" /\ result[i] = ConnectionError(k)
    /\ pc[j] = "thrown" /\ result[j] = ConnectionError(k)

\* C7 as stated: in every state exactly one of cached.promise and cached.conn
\* is present.
C7_MutuallyExclusive ==
  \A m \in RouteModules : (cached[m].promise # NULL) # (cached[m].conn # NULL)

\* C7 amended: cached.conn is absent or the result of a fulfilled connect of
\* its module, cached.promise is absent or the promise of a connect call of its
\* module, and cached.conn, once present, is never absent again.  (Both are
\* absent before the first call and after a failure was cleared; both are
\* present after a success, the fulfilled promise is kept.)
C7_ConnFromFulfilled ==
  /\ [](\A m \in RouteModules :
          /\ cached[m].conn # NULL =>
               (connectBy[cached[m].conn] = m /\ connectState[cached[m].conn] = "fulfilled")
          /\ cached[m].promise # NULL => connectBy[cached[m].promise] = m)
  /\ [][\A m \in RouteModules : cached[m].conn # NULL => cached'[m].conn # NULL]_vars

\* C7 witness: promise and handle are both present
C7_Witness ==
  \E m \in RouteModules : cached[m].promise # NULL /\ cached[m].conn # NULL

CacheEmpty(f) ==
  /\ CachedHandle(f) = NULL
  /\ f \in RouteModules => cached[f].promise = NULL

\* C4: a failed attempt is not cached.  When every connect call of a function
\* so far was rejected and every caller has received its failure, the cache of
\* the function is empty; a caller that resumes from a rejected connect throws
\* that failure, leaves the handle slot alone and (route level) clears
\* cached.promise; a call that finds the cache empty makes a new connect call;
\* a caller that resumes from a fulfilled connect stores its handle.
C4_FailureNotCached ==
  /\ [](\A f \in Functions :
          ( /\ ConnectsOf(f) # {}
            /\ \A k \in ConnectsOf(f) : connectState[k] = "rejected"
            /\ \A i \in Callers : fn[i] # f )
          => CacheEmpty(f))
  /\ [][\A i \in Callers : \A f \in Functions :
          (Leaves(i) /\ fn[i] = f /\ connectState[awaited[i]] = "rejected")
            => /\ pc'[i] = "thrown"
               /\ result'[i] = ConnectionError(awaited[i])
               /\ CachedHandle(f)' = CachedHandle(f)
               /\ f \in RouteModules => cached'[f].promise = NULL]_vars
  /\ [][\A i \in Callers : \A f \in Functions :
          (CacheEmpty(f) /\ fn[i] # f /\ fn'[i] = f)
            => /\ ConnectCalls(f)' = ConnectCalls(f) + 1
               /\ connectBy[awaited'[i]] = "none"
               /\ connectState'[awaited'[i]] = "pending"]_vars
  /\ [][\A i \in Callers : \A f \in Functions :
          (Leaves(i) /\ fn[i] = f /\ connectState[awaited[i]] = "fulfilled")
            => CachedHandle(f)' = awaited[i]]_vars

\* C4 witness: a route-level connect was rejected and a later one is cached,
\* and a caller of connectMongo has thrown the failure of its connect
C4_Witness ==
  \E k1, k2, k3 \in Attempts : \E i \in Callers :
    /\ k1 < k2
    /\ connectBy[k1] = "recommendations" /\ connectState[k1] = "rejected"
    /\ connectBy[k2] = "recommendations" /\ cached["recommendations"].conn = k2
    /\ connectBy[k3] = "connectMongo" /\ result[i] = ConnectionError(k3)
    /\ cachedConnection = NULL

\* C6: while a cache holds a handle, no step makes a connect call for it and no
\* caller suspends in its function; a call that returns at once returns the
\* handle that the cache of its function holds.
C6_NoConnectAfterSuccess ==
  [][/\ \A f \in Functions :
          CachedHandle(f) # NULL
            => /\ ConnectCalls(f)' = ConnectCalls(f)
               /\ \A i \in Callers : fn[i] # f => fn'[i] # f
     /\ \A i \in Callers :
          (CanCall(i) /\ pc'[i] = "returned" /\ result'[i] # result[i])
            => CachedHandle(connectBy[result'[i].id]) = result'[i].id]_vars

\* C6 witness: lib/db has connected once and every caller has got that handle
\* (the function has no pending state to join, so one of them was served from
\* the cache), and the route-level cache has served its handle as well
C6_Witness ==
  /\ ConnectCalls("db") = 1
  /\ cachedClient # NULL
  /\ \A i \in Callers : pc[i] = "returned" /\ result[i] = Handle(cachedClient)
  /\ cached["recommendations"].conn # NULL
  /\ ConnectCalls("recommendations") = 1

\* the request carries a token that jwt.verify accepts under HS256 with the
\* configured secret at the current time
ValidCredential ==
  /\ jwtToken.present /\ ~jwtToken.empty
  /\ ~JWT_SECRET_BUFFER.isNull
  /\ jwtToken.token.shape = "jws"
  /\ jwtToken.token.alg = ALGORITHM
  /\ jwtToken.token.sig = [kind |-> "hmac", key |-> JWT_SECRET_BUFFER.bytes]
  /\ (jwtToken.token.exp = NoExp \/ now < jwtToken.token.exp)

\* C8: a call of isAuthenticated ends with true or false, and with true only
\* for a request that carries a jwt cookie, with a usable secret, whose token is
\* well formed, names HS256, is signed with the configured secret and is not
\* expired (a token without exp claim does not expire); for every other
\* combination it ends with false.
C8_TrueOnlyIfValid ==
  [][(authPc # "idle" /\ authPc' = "idle")
       => /\ authOutcome' \in {"true", "false"}
          /\ authOutcome' = "true" => ValidCredential]_vars

\* C8 witness: a call has returned true for a token that carries an exp claim
C8_Witness ==
  /\ authPc = "idle"
  /\ authOutcome = "true"
  /\ jwtToken.token.exp # NoExp
  /\ JWT_SECRET_BUFFER.bytes # <<>>

SecretAbsent == ~JWT_SECRET.defined \/ JWT_SECRET.value = <<>>

\* C9: without JWT_SECRET (absent or empty) JWT_SECRET_BUFFER is null in every
\* state, jwt.verify is never called and every call of isAuthenticated ends
\* with false.
C9_NoSecretDeniesAll ==
  SecretAbsent =>
    /\ JWT_SECRET_BUFFER.isNull
    /\ verifyCalls = 0
    /\ authPc \in {"idle", "extracted"}
    /\ (authPc = "idle" /\ requests > 0) => authOutcome = "false"

\* C9 witness: no secret, and a request with a well-formed, unexpired HS256
\* token has been denied
C9_Witness ==
  /\ SecretAbsent
  /\ authPc = "idle" /\ authOutcome = "false"
  /\ jwtToken.present /\ ~jwtToken.empty
  /\ jwtToken.token.shape = "jws" /\ jwtToken.token.alg = ALGORITHM
  /\ jwtToken.token.sig.kind = "hmac" /\ jwtToken.token.exp = NoExp

\* C10: no call of isAuthenticated ends by throwing, and a call in which
\* jwt.verify threw, whatever the error, ends with false.
C10_NeverThrows ==
  /\ authOutcome # "throw"
  /\ (authPc = "idle" /\ caught # "none") => authOutcome = "false"

\* C10 witness: jwt.verify failed with an error that is none of the
\* jsonwebtoken errors, and the call has ended with false
C10_Witness ==
  /\ authPc = "idle"
  /\ caught = "Error"
  /\ authOutcome = "false"

\* the request carries no jwt cookie, or an empty one
NoCredential == ~jwtToken.present \/ jwtToken.empty

\* C11: a call of isAuthenticated for a request without jwt cookie (or with an
\* empty one) never reaches jwt.verify or its catch block, does not end by
\* throwing, and ends with false after the message of line 41, the one of the
\* cookie check, also when there is no secret: the secret check of line 46 is
\* not reached.
C11_NoCookieDenied ==
  NoCredential =>
    /\ authPc \in {"idle", "extracted"}
    /\ authOutcome # "throw"
    /\ (authPc = "idle" /\ requests > 0)
         => /\ authOutcome = "false"
            /\ caught = "none"
            /\ log = "No JWT token found in cookies"

\* C11 witness: a request with an empty jwt cookie has been denied while there
\* is no secret, and the message is the one of the cookie check
C11_Witness ==
  /\ authPc = "idle"
  /\ jwtToken = EmptyCookie
  /\ JWT_SECRET_BUFFER.isNull
  /\ authOutcome = "false"
  /\ log = "No JWT token found in cookies"

\* JWT_SECRET is set and holds a character that is no base64 digit
SecretMalformed ==
  /\ JWT_SECRET.defined
  /\ \E n \in 1..Len(JWT_SECRET.value) : B64Value(JWT_SECRET.value[n]) = 64

\* C12: with a JWT_SECRET that is not well-formed base64, JWT_SECRET_BUFFER
\* is null, jwt.verify is never called and no call of isAuthenticated ends with
\* true.
C12_MalformedSecretUnusable ==
  SecretMalformed =>
    /\ JWT_SECRET_BUFFER.isNull
    /\ verifyCalls = 0
    /\ authOutcome # "true"

\* request i has been answered after isAuthenticated resolved to false
Denied(i) == handler[i] = "done" /\ authenticated[i] = "false"

\* C13: GET /api/movies/recommendations: every request for which
\* isAuthenticated resolved to false is answered with status 401 and the body
\* {error: 'Unauthorized'}, whatever its cookie and whether there is a secret,
\* so any two denied requests have identical responses.
C13_DenialsIdentical ==
  \A i, j \in Callers :
    (Denied(i) /\ Denied(j)) => (response[i] = Unauthorized /\ response[j] = response[i])

\* C13 witness: with a secret, a request without cookie and a request with an
\* expired token have both been denied
C13_Witness ==
  \E i, j \in Callers :
    /\ Denied(i) /\ Denied(j)
    /\ ~JWT_SECRET_BUFFER.isNull
    /\ request[i] = NoCookie
    /\ request[j].present /\ request[j].token.shape = "jws"
    /\ request[j].token.sig = [kind |-> "hmac", key |-> GetKey]
    /\ request[j].token.alg = ALGORITHM /\ request[j].token.exp = 0

\* C14: GET /api/movies/recommendations: a request is inside
\* connectToDatabase, has a result of it or has started the query only if
\* isAuthenticated resolved to true for it; a request for which it resolved to
\* false never calls connectToDatabase and is answered 401; and a step taken
\* while no request is between a true result and its query (the steps of
\* entering, of isAuthenticated, of a denial) leaves the cache, the connect
\* calls made and every caller's position in connectToDatabase unchanged.
C14_ConnectOnlyAfterAllow ==
  /\ [](\A i \in Callers :
          /\ (pc[i] # "idle" \/ fn[i] # "none" \/ handler[i] = "query")
               => authenticated[i] = "true"
          /\ authenticated[i] = "false"
               => /\ pc[i] = "idle" /\ awaited[i] = NULL /\ result[i] = NoResult
                  /\ handler[i] = "done" => response[i] = Unauthorized)
  /\ [][(\A i \in Callers : ~(handler[i] = "awaitAuth" /\ authenticated[i] = "true"))
          => UNCHANGED <<cacheVars, connectBy, pc, fn, awaited, result>>]_vars

\* C14 witness: one request was denied and answered 401, another was allowed,
\* has connected and been answered; one connect call was made
C14_Witness ==
  \E i, j \in Callers :
    /\ Denied(i) /\ response[i] = Unauthorized
    /\ authenticated[j] = "true" /\ response[j] = RecommendedMovies
    /\ cached["recommendations"].conn # NULL
    /\ ConnectCalls("recommendations") = 1

\* C15: a call of isAuthenticated moves idle -> extracted (cookie read) and
\* from there, without a credential, straight to its end with false; with a
\* credential to its end with false (no secret), or through one call of
\* jwt.verify to verified and then its end with true, or to catch and then its
\* end with false.  It ends with exactly one of true and false, no step leads
\* back into the call, and jwt.verify is called only in the step that leaves
\* extracted: at most once for each request.
C15_StateMachine ==
  /\ [](/\ verifyCalls <= requests
        /\ authPc # "idle" => authOutcome = "none"
        /\ (authPc = "idle" /\ requests > 0) => authOutcome \in {"true", "false"}
        /\ authPc \in {"verified", "catch"} => ~NoCredential)
  /\ [][/\ authPc = "idle" => (authPc' = "extracted" /\ authOutcome' = "none")
        /\ authPc = "extracted"
             => IF NoCredential \/ JWT_SECRET_BUFFER.isNull
                THEN authPc' = "idle" /\ authOutcome' = "false"
                ELSE authPc' \in {"verified", "catch"}
        /\ authPc = "verified" => (authPc' = "idle" /\ authOutcome' = "true")
        /\ authPc = "catch" => (authPc' = "idle" /\ authOutcome' = "false")
        /\ IF authPc = "extracted" /\ authPc' \in {"verified", "catch"}
           THEN verifyCalls' = verifyCalls + 1
           ELSE verifyCalls' = verifyCalls]_<<authPc, authOutcome, verifyCalls>>

\* C15 witness: two requests, each verified once, the second one denied for
\* an expired token
C15_Witness ==
  /\ authPc = "idle"
  /\ requests = 2 /\ verifyCalls = 2
  /\ caught = "TokenExpiredError"
  /\ authOutcome = "false"

\* what isAuthenticated returns for a cookie, a secret and a time when
\* jwt.verify answers as JwtVerify
IsAuthenticatedResult(cookie, buffer, clock) ==
  IF ~cookie.present \/ cookie.empty THEN "false"
  ELSE IF buffer.isNull THEN "false"
  ELSE IF JwtVerify(cookie.token, buffer.bytes, {ALGORITHM}, clock) = "ok" THEN "true"
  ELSE "false"

\* C16: JWT_SECRET_BUFFER is in every state what the module computed from
\* JWT_SECRET when it was loaded and no step changes it; no step of
\* isAuthenticated changes the connection caches, a caller or a request
\* handler; and whenever a call ends in which jwt.verify answered as JwtVerify,
\* its result is IsAuthenticatedResult of the cookie, the secret and the time,
\* whatever calls came before.
C16_NoProcessState ==
  /\ [](JWT_SECRET_BUFFER = LoadSecret(JWT_SECRET))
  /\ [][/\ UNCHANGED <<JWT_SECRET, JWT_SECRET_BUFFER>>
        /\ UNCHANGED <<MONGODB_URI, cacheVars, callVars, getVars, clientVars, apiVars, uiVars>>
        /\ (authPc # "idle" /\ authPc' = "idle"
            /\ (caught = "none"
                \/ caught = JwtVerify(jwtToken.token, JWT_SECRET_BUFFER.bytes,
                                      {ALGORITHM}, now)))
           => authOutcome' = IsAuthenticatedResult(jwtToken, JWT_SECRET_BUFFER, now)]_vars

\* C16 witness: after a request that was denied without a call of jwt.verify
\* and after time has passed, a request has been allowed
C16_Witness ==
  /\ authPc = "idle"
  /\ requests = 2 /\ verifyCalls = 1
  /\ now > 0
  /\ authOutcome = "true"

\* C17: the handle that the cache of a route module holds and the client that
\* lib/db holds (used by /api/movies/search) are never both present unless they
\* are one and the same connection.
C17_OneLiveHandle ==
  \A m \in RouteModules :
    (cached[m].conn # NULL /\ cachedClient # NULL) => cached[m].conn = cachedClient

\* C18: without MONGODB_URI no request handler gets as far as meeting the
\* missing configuration as an error of its own request: no call of
\* connectToDatabase throws the configuration error and no request is answered
\* with 500.
C18_MissingUriIsFatal ==
  ~MONGODB_URI =>
    \A i \in Callers : result[i] # ConfigurationError /\ response[i] # FailedToFetch

\* C19: a consumer that starts to await clientPromise when the connect() it
\* stands for has been rejected awaits a connect call made in that step.
C19_FailureNotKept ==
  [][\A i \in Callers :
       ( /\ fn[i] # "clientPromise" /\ fn'[i] = "clientPromise"
         /\ clientPromise # NULL
         /\ connectState[clientPromise] = "rejected" )
       => /\ connectBy[awaited'[i]] = "none"
          /\ connectState'[awaited'[i]] = "pending"]_vars

\* C20: route-level cache.  A caller suspended on a promise that has not
\* settled stays suspended on that same promise in every step, and no step
\* makes a connect call while the promise that the cache holds has not settled;
\* with the continuations of settled promises run eventually, a caller
\* suspended on a settled promise eventually leaves connectToDatabase (C5: with
\* the handle or the failure of that promise).
C20_WaiterFollowsConnect ==
  /\ [][\A i \in Callers :
          (pc[i] = "awaiting" /\ connectState[awaited[i]] = "pending")
            => (pc'[i] = "awaiting" /\ awaited'[i] = awaited[i])]_vars
  /\ [][\A m \in RouteModules :
          (cached[m].promise # NULL /\ connectState[cached[m].promise] = "pending")
            => ConnectCalls(m)' = ConnectCalls(m)]_vars
  /\ \A i \in Callers :
       (pc[i] = "awaiting" /\ connectState[awaited[i]] # "pending")
         ~> (pc[i] \in {"returned", "thrown"})

\* C20 witness: a caller has thrown the failure of a connect that was
\* rejected while another caller is suspended on a connect that is pending
C20_Witness ==
  \E i, j \in Callers : \E k \in Attempts :
    /\ pc[i] = "thrown" /\ result[i] = ConnectionError(k)
    /\ connectBy[k] = "recommendations"
    /\ pc[j] = "awaiting" /\ fn[j] = "recommendations"
    /\ connectState[awaited[j]] = "pending"

\* a response whose body carries the message of a failed connect call
TellsCause(r) ==
  r.details \in {Message(ConnectionError(k)) : k \in Attempts}

\* C21: whenever the connection attempt of an API handler fails, the response
\* is a generic error: the body of no handler (/api/movies,
\* /api/movies/recommendations, /api/movies/search, /api/test, /api/migrate)
\* carries the message or details of the underlying error.
C21_NoCauseInBody ==
  \A i \in Callers :
    /\ ~TellsCause(res[i])
    /\ (handler[i] = "done" /\ pc[i] = "thrown") => response[i] = FailedToFetch

\* the acquisition call of caller i has returned the handle of a fulfilled
\* connect call made by function f
Acquired(i, f) ==
  /\ pc[i] = "returned"
  /\ result[i].kind = "handle"
  /\ result[i].id # NULL
  /\ connectState[result[i].id] = "fulfilled"
  /\ connectBy[result[i].id] = f

\* the positions at which a handler has issued a query
Querying == {"find", "countDocuments", "create", "readCsv", "insertMany"}

\* C22: no API handler issues a database query before a connection
\* initialization has completed successfully: a handler is at or past its
\* query (Movie.find, Movie.aggregate, db.collection(...).find,
\* Movie.countDocuments) only when its acquisition call has returned the handle
\* of a fulfilled connect, and an acquisition call that returned normally never
\* returned an absent handle.
C22_QueryAfterConnect ==
  \A i \in Callers :
    /\ step[i] \in Querying => Acquired(i, AcquisitionOf(req[i].url))
    /\ handler[i] = "query" => Acquired(i, "recommendations")
    /\ pc[i] = "returned" =>
         (result[i].kind = "handle" /\ result[i].id # NULL
          /\ connectState[result[i].id] = "fulfilled")

\* C22 witness: one handler has issued Movie.find or db.collection().find
\* with the handle it was given while another handler is still suspended in
\* its acquisition call
C22_Witness ==
  \E i, j \in Callers :
    /\ i # j
    /\ step[i] = "find" /\ Acquired(i, AcquisitionOf(req[i].url))
    /\ step[j] = "entered" /\ pc[j] = "awaiting"

\* C23: /api/migrate inserts the CSV movies only when the collection is
\* empty, so under every interleaving of migrate requests the rows of the CSV
\* file are in the collection at most once; a request that is not a GET gets
\* 405 and never touches the database.
C23_InsertedAtMostOnce ==
  /\ movies.csv <= 1
  /\ \A i \in Callers :
       (step[i] = "done" /\ req[i].url = "migrate" /\ req[i].method # "GET")
         => (res[i] = MethodNotAllowed /\ pc[i] = "idle")

\* a debounce timer fires in this step: the box and the movies are as before
\* and a timer is gone
TimerFires == searchQuery' = searchQuery /\ allMovies' = allMovies /\ timers' # timers

\* C24: the home page search is debounced.  At most one timer is pending at
\* any time; a timer that fires is the one of the query in the box, so a
\* search (a searchMovies call or a run of the local filter) is made only for
\* a query that stayed unchanged until its timer fired; and a timer that fires
\* for an empty or whitespace-only query clears searchResults and errorSearch
\* and makes no request.
C24_Debounced ==
  /\ [](Cardinality(timers) <= 1)
  /\ [][TimerFires => timers \ timers' = {searchQuery}]_vars
  /\ [][Len(searches') > Len(searches)
          => /\ searches' = Append(searches, [query |-> searchQuery, state |-> "pending"])
             /\ TimerFires
             /\ Trim(searchQuery) # Blank]_vars
  /\ [][(searchResults' # searchResults /\ searchResults'.from = "filter")
          => (TimerFires /\ searchResults' = Filtered(allMovies, searchQuery))]_vars
  /\ [][(TimerFires /\ Trim(searchQuery) = Blank)
          => (searchResults' = Cleared /\ errorSearch' = "none" /\ searches' = searches)]_vars

\* C24 witness: a searchMovies call was made for "a", the box was then edited
\* to a single space, and the one pending timer is the one of that edit
C24_Witness ==
  /\ Len(searches) = 1
  /\ searches[1].query = <<"a">>
  /\ searchQuery = <<" ">>
  /\ timers = {<<" ">>}

\* every searchMovies call has settled and no timer is pending
SearchesSettled ==
  /\ timers = {}
  /\ \A k \in 1..Len(searches) : searches[k].state # "pending"

\* C25: home page with remote search.  Once all the searchMovies calls that
\* were made have settled, the results shown are those of the query in the box
\* (none when it is empty): the response to an older query never overwrites a
\* newer result.  Read for the runs in which no search error is shown.
C25_LatestResultsShown ==
  (homePage = "remote" /\ SearchesSettled /\ errorSearch = "none")
    => searchResults = IF Trim(searchQuery) = Blank THEN Cleared
                       ELSE ResponseData(searchQuery)

\* a step of the status check, which loads isInWatchlist of component c
StatusCheck(c) ==
  IF c = Card THEN checking = "checkMovieInWatchlist" /\ checking' = "done"
  ELSE effect = "checkMovieInWatchlist" /\ effect' = "fetchUserRatingForMovie"

\* a request of handleToggleWatchlist of component c settles in this step
Settles(c, kind) == toggling'[c][kind] < toggling[c][kind]

\* C26: on a movie card and on the movie details page, a toggle is ignored
\* while loadingWatchlist is true, so that a component has at most one add or
\* remove request in flight; isInWatchlist changes only when the request of the
\* matching kind succeeded, and stays as it is when the request fails or when
\* the title or the genre is missing (in which case no request is made);
\* loadingWatchlist is false after every way out of handleToggleWatchlist.
C26_ToggleGuarded ==
  /\ [](\A c \in Components : InFlight(c) <= 1)
  /\ [][\A c \in Components : loadingWatchlist[c] =>
          /\ toggling'[c].add <= toggling[c].add
          /\ toggling'[c].remove <= toggling[c].remove]_vars
  /\ [][\A c \in Components :
          (isInWatchlist'[c] # isInWatchlist[c] /\ ~StatusCheck(c)) =>
             \/ Settles(c, "add") /\ isInWatchlist'[c] /\ toast' = Added
             \/ Settles(c, "remove") /\ ~isInWatchlist'[c] /\ toast' = Removed]_vars
  /\ [][\A c \in Components :
          ((Settles(c, "add") \/ Settles(c, "remove")) /\ toast' = UpdateFailed)
             => isInWatchlist'[c] = isInWatchlist[c]]_vars
  /\ [][(toast' = MissingDetails /\ toast # MissingDetails)
          => /\ isInWatchlist' = isInWatchlist
             /\ toggling' = toggling
             /\ \A c \in Components : ~loadingWatchlist[c] => ~loadingWatchlist'[c]]_vars
  /\ [][\A c \in Components :
          (Settles(c, "add") \/ Settles(c, "remove")) => ~loadingWatchlist'[c]]_vars

\* a card whose earlier request failed has a remove request in flight
C26_Witness ==
  \E c \in Components :
    /\ toggling[c] = [add |-> 0, remove |-> 1]
    /\ loadingWatchlist[c]
    /\ isInWatchlist[c]
    /\ toast = UpdateFailed

\* C27: on the profile page, a submission whose email is the loaded profile's
\* and which gives no new password sends no updateUserProfile request; when the
\* request succeeds logoutUser is called, and the page redirects to /login
\* whether logoutUser succeeds or fails; when the request fails there is no
\* logout and no redirect; isSubmitting is false once the handler is over.
C27_UpdateThenLogout ==
  /\ [][(update # "updateUserProfile" /\ update' = "updateUserProfile")
          => (data'.email # userProfile.email \/ data'.newPassword # NoText)]_vars
  /\ [][(update = "updateUserProfile" /\ toast' = Updated)
          => update' = "logoutUser"]_vars
  /\ [][(update = "logoutUser" /\ update' # "logoutUser")
          => (router'[Profile] = "/login" /\ update' = "none")]_vars
  /\ [][(update = "updateUserProfile" /\ toast' = NotUpdated)
          => (update' = "none" /\ router' = router)]_vars
  /\ [](update = "none" => ~isSubmitting)
  /\ [](update # "fetchUserProfile")

\* the profile was updated, the logout failed and the page redirected
C27_Witness ==
  /\ update = "none"
  /\ ~isSubmitting
  /\ router[Profile] = "/login"
  /\ toast = "Logout failed, but profile updated. Please log in again."
  /\ payload.email = NewEmail

\* C28: once an asynchronous operation of the user interface has settled, the
\* busy flag it set is false again: loading of AuthForm, loadingLogout of the
\* Navbar, isSubmitting of the profile page, submittingRating of the movie
\* details page, and loading, loadingWatchlist and loadingRating of that page
\* once getMovieAndRatings is over, also when the movie is not found or
\* fetchAllMovies fails.
C28_BusyFlagsCleared ==
  /\ submit = "none" => ~loading[Auth]
  /\ logout = "none" => ~loadingLogout
  /\ update = "none" => ~isSubmitting
  /\ rating.at = "none" => ~submittingRating
  /\ (effect = "done" /\ pageError # InvalidId)
       => (~loading[Page] /\ ~loadingWatchlist[Page] /\ ~loadingRating)

====
